---- MODULE Spec2Model ----
(***************************************************************************)
(* Incremental synchronisation of swim-meet result PDFs (swimstats).       *)
(*                                                                         *)
(* The model follows src/swimstats/pipeline.py (sync_category,             *)
(* sync_multiple_categories), src/swimstats/db.py (the files and results   *)
(* tables behind one sqlite3 connection), src/swimstats/detect.py (the     *)
(* document score) and the remote share of src/swimstats/webdav.py.        *)
(*                                                                         *)
(* The sqlite3 connection is opened by init_db with Python's default       *)
(* transaction control: the first INSERT/UPDATE/DELETE opens a             *)
(* transaction, conn.commit() is the only thing that ends it, an exception *)
(* rolls nothing back, and closing the connection discards what was not    *)
(* committed.  The store is therefore two copies of each table: what the   *)
(* connection sees (files, results) and what is committed (cfiles,         *)
(* cresults).                                                              *)
(***************************************************************************)
EXTENDS Integers, Sequences, FiniteSets, TLC

\* ------------------------------------------------------------------ bounds
MaxDocs == 2        \* documents on the remote share, paths 1..MaxDocs
MaxOps == 3         \* remote modifications and top-level sync invocations in one behaviour
MaxHits == 7        \* rank-shaped lines in the first pages of a scored text
MaxTimeLen == 7     \* characters of a string handed to time_to_seconds
MaxNameLen == 4     \* code points of a name handed to norm_key
MaxPrefixToks == 3  \* tokens between the rank and the time of a result line
MaxLines == 3       \* lines of a document of several lines
MaxPieces == 5      \* pieces of a text handed to normalize_event_name
MaxNoise == 2       \* noise fields after the finish time, in any order

\* Python's None / SQL NULL
NULL == 0

Paths == 1..MaxDocs
\* the server hands out a fresh etag with every modification, or reports none
Etags == {NULL} \cup (1..(MaxOps))
LastMods == 1..(MaxOps)
\* dataset tags are opaque labels that no branch of the code looks at: an
\* invocation uses the first invocation's tag or another one
Tags == {1, 2}
\* A scope (category_path) c is the directory that holds the documents c..MaxDocs:
\* scope 1 is the share's root, scope MaxDocs its deepest sub-directory.
Categories == {1, MaxDocs}

\* ------------------------------------------------------- document contents
\* The byte contents a document can have, by what the text layer shows to
\* score_results_pdf and what the extractor makes of it.
\*   open_ok   pdfplumber can open the bytes and read the first pages
\*   hits      number of lines of the first pages that match RANK_LINE
\*   parse_ok  the extractor reads every page without raising
\*   rows      the rows the extractor returns, in page-then-line order
\*   size      getcontentlength in the listing (NULL: the server gives none)
Contents ==
  << \* 1: a flyer with three digit-laden lines, score 3
     [open_ok |-> TRUE, signature |-> FALSE, resultados |-> FALSE, prueba |-> FALSE,
      clasificacion |-> FALSE, tiempo |-> TRUE, hits |-> 3,
      parse_ok |-> TRUE, rows |-> <<7, 8, 9>>, size |-> 1],
     \* 2: a Splash results document, score 11, two rows
     [open_ok |-> TRUE, signature |-> TRUE, resultados |-> TRUE, prueba |-> FALSE,
      clasificacion |-> FALSE, tiempo |-> FALSE, hits |-> 7,
      parse_ok |-> TRUE, rows |-> <<1, 2>>, size |-> 2],
     \* 3: a results document whose lines are all dropped, score 7, no row
     [open_ok |-> TRUE, signature |-> TRUE, resultados |-> TRUE, prueba |-> TRUE,
      clasificacion |-> FALSE, tiempo |-> FALSE, hits |-> 0,
      parse_ok |-> TRUE, rows |-> << >>, size |-> NULL],
     \* 4: a results document with an unreadable later page, score 6
     [open_ok |-> TRUE, signature |-> TRUE, resultados |-> TRUE, prueba |-> FALSE,
      clasificacion |-> FALSE, tiempo |-> FALSE, hits |-> 1,
      parse_ok |-> FALSE, rows |-> << >>, size |-> 1],
     \* 5: bytes pdfplumber cannot open at all
     [open_ok |-> FALSE, signature |-> FALSE, resultados |-> FALSE, prueba |-> FALSE,
      clasificacion |-> FALSE, tiempo |-> FALSE, hits |-> 0,
      parse_ok |-> FALSE, rows |-> << >>, size |-> NULL] >>

ContentIds == 1..Len(Contents)

VARIABLES
  remote,       \* remote[p] = [etag, last_modified, content] of document p on the share
  files,        \* table files as the connection sees it: a set of rows keyed by path
  results,      \* table results as the connection sees it: rows in id order
  cfiles,       \* table files as committed
  cresults,     \* table results as committed
  multi,        \* frame of sync_multiple_categories
  run,          \* frame of sync_category
  dataset_tag,  \* argument of the invocation in progress
  ret,          \* how the last top-level invocation ended
  ev,           \* the step just taken
  log,          \* what the invocation in progress (or the last one) did
  last,         \* the listing seen by the last finished invocation
  prevAtCall,   \* value of last when the current invocation was called
  nChanges,     \* remote modifications so far
  nCalls,       \* top-level invocations so far
  included,     \* table included_categories: rows [category_path, enabled]
  walk,         \* frame of the generator walk_pdfs when it is run on its own
  arg,          \* argument handed to a function that is called on its own
  val           \* what that function returned

vars == <<remote, files, results, cfiles, cresults, multi, run, dataset_tag,
          ret, ev, log, last, prevAtCall, nChanges, nCalls, included, walk,
          arg, val>>

\* the state of a sync, which a function called on its own leaves alone
syncvars == <<remote, files, results, cfiles, cresults, multi, run, dataset_tag,
              ret, ev, log, last, prevAtCall, nChanges, nCalls, included, walk>>

\* ---------------------------------------------------------------- helpers
Min(a, b) == IF a < b THEN a ELSE b

\* rows of table t whose file_path is p, in id order
RowsOf(t, p) == SelectSeq(t, LAMBDA r : r.file_path = p)

ZeroStats ==
  [pdfs_encontrados |-> 0, procesados |-> 0, omitidos_sin_cambios |-> 0,
   pdfs_resultados |-> 0, pdfs_no_resultados |-> 0,
   resultados_detectados_sin_filas |-> 0]

NoEntry == [path |-> 0, etag |-> NULL, size |-> NULL, last_modified |-> NULL]
NoRun == [active |-> FALSE, category_path |-> 0, pdfs |-> << >>, i |-> 0,
          done |-> 0, stats |-> ZeroStats]
NoMulti == [active |-> FALSE, category_paths |-> << >>, i |-> 0,
            dirs |-> 0, agg |-> ZeroStats]
\* calls: the calls of progress_cb that the run of sync_category in progress
\* (or the last one) has made, in order;
\* downloaded, upserted, replaced: the paths the invocation downloaded, wrote a
\* files row for, and ran the DELETE of replace_results_for_file for;
\* processed: the entries it counted as processed; listed: the entries walk_pdfs
\* handed it, as (path, etag, size)
NoLog == [downloaded |-> {}, upserted |-> {}, replaced |-> {},
          processed |-> {}, listed |-> {}, calls |-> << >>]

\* a step: what was done, on which listed entry, with which bytes, and how many
\* result rows the entry's path had before the step
Event(op, e, c) ==
  [op |-> op, e |-> e, content |-> c,
   had |-> Len(SelectSeq(results, LAMBDA r : r.file_path = e.path))]

Key(e) == [path |-> e.path, etag |-> e.etag, size |-> e.size]
Keys(pdfs) == {Key(pdfs[j]) : j \in 1..Len(pdfs)}

\* an aggregation that keeps the counters of the last scope
AddStats_last_scope(a, b) == b

AddStats(a, b) ==
  [pdfs_encontrados |-> a.pdfs_encontrados + b.pdfs_encontrados,
   procesados |-> a.procesados + b.procesados,
   omitidos_sin_cambios |-> a.omitidos_sin_cambios + b.omitidos_sin_cambios,
   pdfs_resultados |-> a.pdfs_resultados + b.pdfs_resultados,
   pdfs_no_resultados |-> a.pdfs_no_resultados + b.pdfs_no_resultados,
   resultados_detectados_sin_filas |->
       a.resultados_detectados_sin_filas + b.resultados_detectados_sin_filas]

\* ------------------------------------------------------------ webdav.py
\* DavEntry of document p as a PROPFIND of its directory reports it
DavEntry(p) ==
  [path |-> p, etag |-> remote[p].etag, size |-> Contents[remote[p].content].size,
   last_modified |-> remote[p].last_modified]

\* walk_pdfs: the PDF entries below start_path, in listing order
RECURSIVE walk_pdfs_from(_)
walk_pdfs_from(p) == IF p > MaxDocs THEN << >> ELSE <<DavEntry(p)>> \o walk_pdfs_from(p + 1)
walk_pdfs(start_path) == walk_pdfs_from(start_path)

\* download_file: the bytes the share holds now
download_file(rel_path) == remote[rel_path].content

\* ------------------------------------------------------------ detect.py
\* a score that counts every rank-shaped line
score_of_text_uncapped(d) ==
    (IF d.signature THEN 3 ELSE 0)
  + (IF d.resultados THEN 2 ELSE 0)
  + (IF d.prueba THEN 2 ELSE 0)
  + (IF d.clasificacion /\ d.tiempo THEN 2 ELSE 0)
  + d.hits

\* lines 17-34: the score of the text of the first pages, d telling which
\* markers the upper-cased text holds and how many of its lines match RANK_LINE
score_of_text(d) ==
    (IF d.signature THEN 3 ELSE 0)
  + (IF d.resultados THEN 2 ELSE 0)
  + (IF d.prueba THEN 2 ELSE 0)
  + (IF d.clasificacion /\ d.tiempo THEN 2 ELSE 0)
  + Min(d.hits, 6)

\* lines 11-15 return 0 when the bytes cannot be opened or read
score_results_pdf(pdf_bytes) ==
  IF ~Contents[pdf_bytes].open_ok THEN 0 ELSE score_of_text(Contents[pdf_bytes])

Threshold == 6

\* line 38
classify(s) == [is_res |-> s >= Threshold, score |-> s]

\* a classification that takes every score as results
is_results_pdf_any_score(pdf_bytes) ==
  LET s == score_results_pdf(pdf_bytes) IN [is_res |-> s >= 0, score |-> s]

is_results_pdf(pdf_bytes) == classify(score_results_pdf(pdf_bytes))

\* ------------------------------------------------------------ parse
\* the rows parse_splash_results returns for readable bytes, each a row of the
\* document with the category path attached; sync_category adds the dataset tag
parse_splash_results(pdf_bytes, category_path) ==
  [k \in 1..Len(Contents[pdf_bytes].rows) |->
     [row |-> Contents[pdf_bytes].rows[k], category |-> category_path]]

parse_raises(pdf_bytes) == ~Contents[pdf_bytes].parse_ok

\* ------------------------------------------------------------ db.py
\* a comparison that looks at the etag alone
file_is_new_or_changed_etag_only(conn_files, e) ==
  LET row == {r \in conn_files : r.path = e.path} IN
  IF row = {} THEN TRUE
  ELSE \E r \in row : r.etag # e.etag

file_is_new_or_changed(conn_files, e) ==
  LET row == {r \in conn_files : r.path = e.path} IN
  IF row = {} THEN TRUE
  ELSE \E r \in row : r.etag # e.etag \/ r.size # e.size

\* INSERT ... ON CONFLICT(path) DO UPDATE: the row of e.path is written in
\* place, no row of results is touched
upsert_file(conn_files, e, is_results, results_score, tag) ==
  {r \in conn_files : r.path # e.path} \cup
  {[path |-> e.path, etag |-> e.etag, size |-> e.size,
    last_modified |-> e.last_modified,
    is_results |-> is_results, results_score |-> results_score,
    dataset_tag |-> tag]}

\* DELETE FROM results WHERE file_path = ?
delete_results(conn_results, file_path) ==
  SelectSeq(conn_results, LAMBDA r : r.file_path # file_path)

\* the first k INSERTs of replace_results_for_file
insert_results(conn_results, file_path, rows, k) ==
  conn_results \o
  [j \in 1..k |-> [file_path |-> file_path, category |-> rows[j].category,
                   row |-> rows[j].row, dataset_tag |-> rows[j].dataset_tag]]

\* a replacement that inserts the new rows without the DELETE
replace_results_for_file_no_delete(conn_results, file_path, rows, k) ==
  insert_results(conn_results, file_path, rows, k)

\* replace_results_for_file up to (not including) its commit: the DELETE and
\* the first k INSERTs; k = Len(rows) when no INSERT fails
replace_results_for_file(conn_results, file_path, rows, k) ==
  insert_results(delete_results(conn_results, file_path), file_path, rows, k)

\* ------------------------------------------------------------ pipeline.py
\* rows that are handed on without the tag (the INSERT then stores '')
tag_rows_untagged(rows, tag) ==
  [j \in 1..Len(rows) |-> [row |-> rows[j].row, category |-> rows[j].category,
                           dataset_tag |-> NULL]]

\* for r in rows: r["dataset_tag"] = dataset_tag
tag_rows(rows, tag) ==
  [j \in 1..Len(rows) |-> [row |-> rows[j].row, category |-> rows[j].category,
                           dataset_tag |-> tag]]

Idle == ~run.active /\ ~multi.active

\* walk_pdfs is not run on its own
NoWalk == [active |-> FALSE]

\* no function has been called on its own
NoArg == [fn |-> "none"]
NoVal == [done |-> FALSE]

\* the remote share and the empty store
InitSync ==
  \* a results document first, flyers after it; the server reports no etag for
  \* the last document
  /\ remote = [p \in Paths |-> [etag |-> IF p = MaxDocs THEN NULL ELSE 1,
                                last_modified |-> 1,
                                content |-> IF p = 1 THEN 2 ELSE 1]]
  /\ files = {}
  /\ results = << >>
  /\ cfiles = {}
  /\ cresults = << >>
  /\ multi = NoMulti
  /\ run = NoRun
  /\ dataset_tag = 0
  /\ ret = [status |-> "none", by |-> "none", dirs |-> 0, stats |-> ZeroStats]
  /\ ev = Event("init", NoEntry, 0)
  /\ log = NoLog
  /\ last = [returned |-> FALSE, listed |-> {}]
  /\ prevAtCall = [returned |-> FALSE, listed |-> {}]
  /\ nChanges = 0
  /\ nCalls = 0
  /\ included = {}
  /\ walk = NoWalk

Init == InitSync /\ arg = NoArg /\ val = NoVal


\* ---------------------------------------------------- the remote share
\* a document is uploaded again: new bytes (or the same), a new modification
\* time and, where the server reports etags for it, a fresh etag
RemoteModify(p, c) ==
  /\ Idle
  \* a change that no later invocation lists is not followed
  /\ nChanges + nCalls < MaxOps - 1
  /\ remote' = [remote EXCEPT ![p] =
                  [etag |-> IF @.etag = NULL THEN NULL ELSE nChanges + 2,
                   last_modified |-> nChanges + 2, content |-> c]]
  /\ nChanges' = nChanges + 1
  /\ ev' = Event("remote_modify", NoEntry, 0)
  /\ UNCHANGED <<arg, val, included, walk, files, results, cfiles, cresults, multi, run, dataset_tag,
                 ret, log, last, prevAtCall, nCalls>>

\* ---------------------------------------------------- the connection
\* the caller drops the connection and opens a new one with init_db: what was
\* not committed is gone
Reconnect ==
  /\ Idle
  \* with nothing uncommitted the new connection sees what the old one saw
  /\ <<files, results>> # <<cfiles, cresults>>
  /\ files' = cfiles
  /\ results' = cresults
  /\ ev' = Event("reconnect", NoEntry, 0)
  /\ UNCHANGED <<arg, val, included, walk, remote, cfiles, cresults, multi, run, dataset_tag,
                 ret, log, last, prevAtCall, nChanges, nCalls>>

\* ---------------------------------------------------- sync_category
\* lines 24-35: the listing, the counters, the "scan" callback
BeginRun(category_path) ==
  [active |-> TRUE, category_path |-> category_path,
   pdfs |-> walk_pdfs(category_path), i |-> 1, done |-> 0, stats |-> ZeroStats]

\* an exception leaves sync_category and sync_multiple_categories: neither
\* catches anything, nothing is rolled back
Raise(by, newlog) ==
  /\ run' = NoRun
  /\ multi' = NoMulti
  /\ ret' = [status |-> "raised", by |-> by, dirs |-> 0, stats |-> ZeroStats]
  /\ last' = [returned |-> FALSE, listed |-> newlog.listed]
  /\ log' = newlog
  /\ dataset_tag' = 0

\* ---------------------------------------------------- progress_cb
\* the arguments of one call progress_cb(done, total, path, stage)
Call(done, total, path, stage) ==
  [done |-> done, total |-> total, path |-> path, stage |-> stage]

\* line 35
ScanCalls(category_path) ==
  <<Call(0, Len(walk_pdfs(category_path)), category_path, "scan")>>

\* lines 39-42: a document that is skipped, in the frame r
SkipCalls(r, e) == <<Call(r.done + 1, Len(r.pdfs), e.path, "skip_unchanged")>>

\* calls that count the document when its download starts
ProcessCalls_counted_at_download(r, e, is_res) ==
  <<Call(r.done + 1, Len(r.pdfs), e.path, "download"),
    Call(r.done + 1, Len(r.pdfs), e.path, "detect")>>
  \o (IF is_res THEN <<Call(r.done + 1, Len(r.pdfs), e.path, "parse_store")>>
      ELSE << >>)
  \o <<Call(r.done + 1, Len(r.pdfs), e.path, "done")>>

\* lines 45-71: a document that is processed, in the frame r
ProcessCalls(r, e, is_res) ==
  <<Call(r.done, Len(r.pdfs), e.path, "download"),
    Call(r.done, Len(r.pdfs), e.path, "detect")>>
  \o (IF is_res THEN <<Call(r.done, Len(r.pdfs), e.path, "parse_store")>>
      ELSE << >>)
  \o <<Call(r.done + 1, Len(r.pdfs), e.path, "done")>>

\* the log after the calls cs
Called(lg, cs) == [lg EXCEPT !.calls = @ \o cs]

\* sync_category(conn, category_path, progress_cb, dataset_tag) called by the user
CallSyncCategory(category_path, tag) ==
  /\ Idle
  /\ nChanges + nCalls < MaxOps
  /\ tag <= nCalls + 1
  /\ nCalls' = nCalls + 1
  /\ run' = BeginRun(category_path)
  /\ dataset_tag' = tag
  /\ prevAtCall' = last
  /\ log' = [NoLog EXCEPT !.listed = Keys(walk_pdfs(category_path)),
                          !.calls = ScanCalls(category_path)]
  /\ ret' = [status |-> "running", by |-> "none", dirs |-> 0, stats |-> ZeroStats]
  /\ ev' = Event("call", NoEntry, 0)
  /\ UNCHANGED <<arg, val, included, walk, remote, files, results, cfiles, cresults, multi, last, nChanges>>

\* the entry the loop of line 37 is at
AtEntry == run.active /\ run.i <= Len(run.pdfs)
Cur == run.pdfs[run.i]

\* what lines 47-63 compute for the entry e
DocBytes(e) == download_file(e.path)
DocClass(e) == is_results_pdf(DocBytes(e))
DocFiles(e) ==
  upsert_file(files, e, IF DocClass(e).is_res THEN 1 ELSE 0, DocClass(e).score,
              dataset_tag)
DocRows(e) ==
  tag_rows(parse_splash_results(DocBytes(e), run.category_path), dataset_tag)
DocResults(e, k) == replace_results_for_file(results, e.path, DocRows(e), k)

Bump(stats, field) == [stats EXCEPT ![field] = @ + 1]

\* counters that leave out the results documents without rows
count_processed_no_zero_rows(stats, is_res, rows) ==
  IF is_res
    THEN Bump(Bump(stats, "pdfs_resultados"), "procesados")
    ELSE Bump(Bump(stats, "pdfs_no_resultados"), "procesados")

\* lines 55-68: the counters after a document was processed
count_processed(stats, is_res, rows) ==
  IF is_res
    THEN Bump(Bump(IF rows = << >>
                     THEN Bump(stats, "resultados_detectados_sin_filas")
                     ELSE stats,
                   "pdfs_resultados"), "procesados")
    ELSE Bump(Bump(stats, "pdfs_no_resultados"), "procesados")

\* lines 38-43
SkipUnchanged ==
  /\ AtEntry
  /\ ~file_is_new_or_changed(files, Cur)
  /\ run' = [run EXCEPT !.i = @ + 1, !.done = @ + 1,
                        !.stats = Bump(@, "omitidos_sin_cambios")]
  /\ log' = Called(log, SkipCalls(run, Cur))
  /\ ev' = Event("skip_unchanged", Cur, 0)
  /\ UNCHANGED <<arg, val, included, walk, remote, files, results, cfiles, cresults, multi, dataset_tag,
                 ret, last, prevAtCall, nChanges, nCalls>>

\* lines 45-71 with nothing raising
ProcessDocument ==
  /\ AtEntry
  /\ file_is_new_or_changed(files, Cur)
  /\ LET e == Cur
         is_res == DocClass(e).is_res
         rows == DocRows(e)
     IN /\ is_res => ~parse_raises(DocBytes(e))
        /\ files' = DocFiles(e)
        /\ IF is_res
             THEN /\ results' = DocResults(e, Len(rows))
                  \* conn.commit() of replace_results_for_file
                  /\ cfiles' = files'
                  /\ cresults' = results'
             ELSE UNCHANGED <<results, cfiles, cresults>>
        /\ run' = [run EXCEPT
                     !.i = @ + 1, !.done = @ + 1,
                     !.stats = count_processed(@, is_res, rows)]
        /\ log' = [log EXCEPT !.downloaded = @ \cup {e.path},
                              !.upserted = @ \cup {e.path},
                              !.replaced = IF is_res THEN @ \cup {e.path} ELSE @,
                              !.processed = @ \cup {Key(e)},
                              !.calls = @ \o ProcessCalls(run, e, is_res)]
        /\ ev' = Event("processed", e, DocBytes(e))
  /\ UNCHANGED <<arg, val, included, walk, remote, multi, dataset_tag, ret, last, prevAtCall,
                 nChanges, nCalls>>

\* line 47: download_file raises (timeout, transport error, HTTP status)
DownloadFails ==
  /\ AtEntry
  /\ file_is_new_or_changed(files, Cur)
  /\ Raise("download_file", Called(log, SubSeq(ProcessCalls(run, Cur, FALSE), 1, 1)))
  /\ ev' = Event("download_failed", Cur, 0)
  /\ UNCHANGED <<arg, val, included, walk, remote, files, results, cfiles, cresults, prevAtCall, nChanges, nCalls>>

\* line 58: parse_splash_results raises, after upsert_file of line 53
ParseRaises ==
  /\ AtEntry
  /\ file_is_new_or_changed(files, Cur)
  /\ DocClass(Cur).is_res
  /\ parse_raises(DocBytes(Cur))
  /\ files' = DocFiles(Cur)
  /\ Raise("parse_splash_results",
           Called([log EXCEPT !.downloaded = @ \cup {Cur.path},
                              !.upserted = @ \cup {Cur.path}],
                  SubSeq(ProcessCalls(run, Cur, TRUE), 1, 3)))
  /\ ev' = Event("parse_raised", Cur, DocBytes(Cur))
  /\ UNCHANGED <<arg, val, included, walk, remote, results, cfiles, cresults, prevAtCall, nChanges, nCalls>>

\* line 63: the INSERT of row k+1 raises inside replace_results_for_file, after
\* the DELETE and k INSERTs; the commit of line 185 is not reached
InsertFails ==
  /\ AtEntry
  /\ file_is_new_or_changed(files, Cur)
  /\ DocClass(Cur).is_res
  /\ ~parse_raises(DocBytes(Cur))
  /\ files' = DocFiles(Cur)
  /\ \E k \in 0..(Len(DocRows(Cur)) - 1) : results' = DocResults(Cur, k)
  /\ Raise("replace_results_for_file",
           Called([log EXCEPT !.downloaded = @ \cup {Cur.path},
                              !.upserted = @ \cup {Cur.path},
                              !.replaced = @ \cup {Cur.path}],
                  SubSeq(ProcessCalls(run, Cur, TRUE), 1, 3)))
  /\ ev' = Event("insert_failed", Cur, DocBytes(Cur))
  /\ UNCHANGED <<arg, val, included, walk, remote, cfiles, cresults, prevAtCall, nChanges, nCalls>>

\* lines 73-80, and for a call from sync_multiple_categories lines 112-115
SyncCategoryReturn ==
  /\ run.active
  /\ run.i > Len(run.pdfs)
  /\ LET stats == [run.stats EXCEPT !.pdfs_encontrados = Len(run.pdfs)] IN
     IF multi.active
       THEN /\ multi' = [multi EXCEPT !.agg = AddStats(@, stats), !.i = @ + 1]
            /\ UNCHANGED <<ret, last, dataset_tag>>
       ELSE /\ ret' = [status |-> "returned", by |-> "sync_category", dirs |-> 0,
                       stats |-> stats]
            /\ last' = [returned |-> TRUE, listed |-> log.listed]
            /\ dataset_tag' = 0
                      /\ UNCHANGED multi
  /\ run' = NoRun
  /\ ev' = Event("category_returned", NoEntry, 0)
  /\ UNCHANGED <<arg, val, included, walk, remote, files, results, cfiles, cresults, log, prevAtCall,
                 nChanges, nCalls>>

\* ---------------------------------------------------- sync_multiple_categories
\* lines 90-101
CallSyncMultiple(category_paths, tag) ==
  /\ Idle
  /\ nChanges + nCalls < MaxOps
  /\ tag <= nCalls + 1
  /\ nCalls' = nCalls + 1
  /\ multi' = [active |-> TRUE, category_paths |-> category_paths, i |-> 1,
               dirs |-> Len(category_paths), agg |-> ZeroStats]
  /\ dataset_tag' = tag
  /\ prevAtCall' = last
  /\ log' = NoLog
  /\ ret' = [status |-> "running", by |-> "none", dirs |-> 0, stats |-> ZeroStats]
  /\ ev' = Event("call_multiple", NoEntry, 0)
  /\ UNCHANGED <<arg, val, included, walk, remote, files, results, cfiles, cresults, run, last, nChanges>>

AtScope == multi.active /\ ~run.active /\ multi.i <= Len(multi.category_paths)

\* lines 103-111: "dir_start", then sync_category up to its "scan" callback
EnterCategory ==
  /\ AtScope
  /\ run' = BeginRun(multi.category_paths[multi.i])
  /\ log' = [log EXCEPT !.listed = @ \cup Keys(walk_pdfs(multi.category_paths[multi.i])),
                        !.calls = ScanCalls(multi.category_paths[multi.i])]
  /\ ev' = Event("enter_category", NoEntry, 0)
  /\ UNCHANGED <<arg, val, included, walk, remote, files, results, cfiles, cresults, multi, dataset_tag,
                 ret, last, prevAtCall, nChanges, nCalls>>

\* line 117
SyncMultipleReturn ==
  /\ multi.active
  /\ ~run.active
  /\ multi.i > Len(multi.category_paths)
  /\ ret' = [status |-> "returned", by |-> "sync_multiple_categories",
             dirs |-> multi.dirs, stats |-> multi.agg]
  /\ last' = [returned |-> TRUE, listed |-> log.listed]
  /\ multi' = NoMulti
  /\ dataset_tag' = 0
  /\ ev' = Event("returned", NoEntry, 0)
  /\ UNCHANGED <<arg, val, included, walk, remote, files, results, cfiles, cresults, run, log, prevAtCall,
                 nChanges, nCalls>>

\* ---------------------------------------------------- the progress callback
\* progress_cb is called with no try/except around it (lines 35, 42, 46, 50, 57,
\* 71, 105, 115): when it raises, the exception leaves the invocation at that
\* line, with whatever the lines before it have written.

\* line 35, sync_category called by the user: the "scan" call raises
CallSyncCategoryCallbackRaises(category_path, tag) ==
  /\ Idle
  /\ nChanges + nCalls < MaxOps
  /\ tag <= nCalls + 1
  /\ nCalls' = nCalls + 1
  /\ prevAtCall' = last
  /\ Raise("progress_cb", [NoLog EXCEPT !.listed = Keys(walk_pdfs(category_path)),
                                        !.calls = ScanCalls(category_path)])
  /\ ev' = Event("callback_raised", NoEntry, 0)
  /\ UNCHANGED <<arg, val, included, walk, remote, files, results, cfiles, cresults, nChanges>>

CallbackRaises(stage) ==
  /\ \/ /\ stage = "dir_start"                                   \* line 105
        /\ AtScope
        /\ Raise("progress_cb", log)
        /\ UNCHANGED <<files, results, cfiles, cresults>>
     \/ /\ stage = "scan"                                        \* line 35
        /\ AtScope
        /\ Raise("progress_cb",
                 [log EXCEPT !.listed =
                    @ \cup Keys(walk_pdfs(multi.category_paths[multi.i])),
                             !.calls = ScanCalls(multi.category_paths[multi.i])])
        /\ UNCHANGED <<files, results, cfiles, cresults>>
     \/ /\ stage = "dir_done"                                    \* line 115
        /\ multi.active /\ run.active /\ run.i > Len(run.pdfs)
        /\ Raise("progress_cb", log)
        /\ UNCHANGED <<files, results, cfiles, cresults>>
     \/ /\ stage = "skip_unchanged"                              \* line 42
        /\ AtEntry /\ ~file_is_new_or_changed(files, Cur)
        /\ Raise("progress_cb", Called(log, SkipCalls(run, Cur)))
        /\ UNCHANGED <<files, results, cfiles, cresults>>
     \/ /\ stage = "download"                                    \* line 46
        /\ AtEntry /\ file_is_new_or_changed(files, Cur)
        /\ Raise("progress_cb", Called(log, SubSeq(ProcessCalls(run, Cur, FALSE), 1, 1)))
        /\ UNCHANGED <<files, results, cfiles, cresults>>
     \/ /\ stage = "detect"                                      \* line 50
        /\ AtEntry /\ file_is_new_or_changed(files, Cur)
        /\ Raise("progress_cb", Called([log EXCEPT !.downloaded = @ \cup {Cur.path}],
                                        SubSeq(ProcessCalls(run, Cur, FALSE), 1, 2)))
        /\ UNCHANGED <<files, results, cfiles, cresults>>
     \/ /\ stage = "parse_store"                                 \* line 57
        /\ AtEntry /\ file_is_new_or_changed(files, Cur)
        /\ DocClass(Cur).is_res
        /\ files' = DocFiles(Cur)
        /\ Raise("progress_cb",
                 Called([log EXCEPT !.downloaded = @ \cup {Cur.path},
                                    !.upserted = @ \cup {Cur.path}],
                        SubSeq(ProcessCalls(run, Cur, TRUE), 1, 3)))
        /\ UNCHANGED <<results, cfiles, cresults>>
     \/ /\ stage = "done"                                        \* line 71
        /\ AtEntry /\ file_is_new_or_changed(files, Cur)
        /\ DocClass(Cur).is_res => ~parse_raises(DocBytes(Cur))
        /\ files' = DocFiles(Cur)
        /\ IF DocClass(Cur).is_res
             THEN /\ results' = DocResults(Cur, Len(DocRows(Cur)))
                  /\ cfiles' = files'
                  /\ cresults' = results'
             ELSE UNCHANGED <<results, cfiles, cresults>>
        /\ Raise("progress_cb",
                 Called([log EXCEPT !.downloaded = @ \cup {Cur.path},
                                    !.upserted = @ \cup {Cur.path},
                                    !.replaced = IF DocClass(Cur).is_res
                                                   THEN @ \cup {Cur.path} ELSE @,
                                    !.processed = @ \cup {Key(Cur)}],
                        ProcessCalls(run, Cur, DocClass(Cur).is_res)))
  /\ ev' = Event("callback_raised", IF AtEntry THEN Cur ELSE NoEntry, 0)
  /\ UNCHANGED <<arg, val, included, walk, remote, prevAtCall, nChanges, nCalls>>

Stages == {"dir_start", "scan", "dir_done", "skip_unchanged", "download", "detect",
           "parse_store", "done"}

\* the scope lists a caller passes (category_paths or []): none, one scope, or
\* the two scopes in either order
ScopeLists ==
  {<< >>} \cup {<<c>> : c \in Categories}
          \cup {cs \in Categories \X Categories : cs[1] # cs[2]}

Next ==
  \/ \E p \in Paths, c \in ContentIds : RemoteModify(p, c)
  \/ Reconnect
  \/ \E c \in Categories, t \in Tags : CallSyncCategory(c, t)
  \/ \E cs \in ScopeLists, t \in Tags : CallSyncMultiple(cs, t)
  \/ EnterCategory
  \/ SkipUnchanged
  \/ ProcessDocument
  \/ DownloadFails
  \/ ParseRaises
  \/ InsertFails
  \/ SyncCategoryReturn
  \/ SyncMultipleReturn
  \/ \E c \in Categories, t \in Tags : CallSyncCategoryCallbackRaises(c, t)
  \/ \E stage \in Stages : CallbackRaises(stage)

Spec == Init /\ [][Next]_vars

TypeOK ==
  /\ files \subseteq [path : Paths, etag : Etags, size : {NULL, 1, 2},
                      last_modified : LastMods, is_results : {0, 1},
                      results_score : 0..15, dataset_tag : Tags]
  /\ \A p \in Paths : Cardinality({r \in files : r.path = p}) <= 1
  /\ \A j \in 1..Len(results) : results[j].file_path \in Paths

\* ====================================================================
\* The pure functions, each called on its own
\* ====================================================================

\* ------------------------------------------------------------ detect.py
\* the texts pdfplumber can show for the first pages: which markers they hold
\* and how many lines match RANK_LINE
Texts ==
  [signature : BOOLEAN, resultados : BOOLEAN, prueba : BOOLEAN,
   clasificacion : BOOLEAN, tiempo : BOOLEAN, hits : 0..MaxHits]

InitScore == InitSync /\ arg \in Texts /\ val = NoVal

\* is_results_pdf on bytes whose first pages show the text arg
CallIsResultsPdf ==
  /\ ~val.done
  /\ val' = [done |-> TRUE, r |-> classify(score_of_text(arg))]
  /\ UNCHANGED <<arg, syncvars>>

NextScore == CallIsResultsPdf

SpecScore == InitScore /\ [][NextScore]_vars

\* ------------------------------------------------------------ stats.py
\* A string is a sequence of one-character strings.
Digits == {"0", "1", "2", "3", "4", "5", "6", "7", "8", "9"}
DigitVal(c) ==
  CASE c = "0" -> 0 [] c = "1" -> 1 [] c = "2" -> 2 [] c = "3" -> 3 [] c = "4" -> 4
    [] c = "5" -> 5 [] c = "6" -> 6 [] c = "7" -> 7 [] c = "8" -> 8 [] c = "9" -> 9

RECURSIVE IntOf(_)
\* int(s) of a string of digits
IntOf(s) ==
  IF s = << >> THEN 0
  ELSE 10 * IntOf(SubSeq(s, 1, Len(s) - 1)) + DigitVal(s[Len(s)])

AllDigits(s) == \A j \in 1..Len(s) : s[j] \in Digits

RECURSIVE strip(_)
\* str.strip(): white space taken off both ends
strip(t) ==
  IF t = << >> THEN t
  ELSE IF t[1] = " " THEN strip(Tail(t))
  ELSE IF t[Len(t)] = " " THEN strip(SubSeq(t, 1, Len(t) - 1))
  ELSE t

RECURSIVE LeadDigits(_)
\* length of the longest prefix of digits, what a leading \d+ takes
LeadDigits(t) ==
  IF t = << >> \/ t[1] \notin Digits THEN 0 ELSE 1 + LeadDigits(Tail(t))

\* the fraction group cs of length 1 or 2 that ends the string at position k
FractionAt(t, k) ==
  /\ Len(t) - k + 1 \in {1, 2}
  /\ AllDigits(SubSeq(t, k, Len(t)))

\* _TIME_PATTERNS[0]: ^(\d+):(\d{2})[.,](\d{1,2})$
MatchMinSecFrac(t) ==
  LET n == LeadDigits(t) IN
  /\ n >= 1 /\ Len(t) >= n + 5
  /\ t[n + 1] = ":" /\ t[n + 2] \in Digits /\ t[n + 3] \in Digits
  /\ t[n + 4] \in {".", ","}
  /\ FractionAt(t, n + 5)

\* _TIME_PATTERNS[1]: ^(\d+):(\d{2})$
MatchMinSec(t) ==
  LET n == LeadDigits(t) IN
  /\ n >= 1 /\ Len(t) = n + 3
  /\ t[n + 1] = ":" /\ t[n + 2] \in Digits /\ t[n + 3] \in Digits

\* _TIME_PATTERNS[2]: ^(\d{1,2})[.,](\d{1,2})$
MatchSecFrac(t) ==
  LET n == LeadDigits(t) IN
  /\ n \in {1, 2} /\ Len(t) >= n + 2
  /\ t[n + 1] \in {".", ","}
  /\ FractionAt(t, n + 2)

\* a one-digit fraction taken at face value, as hundredths
centis_unscaled(cs) == IntOf(cs)

\* lines 25-27: the fraction group in hundredths, a single digit being tenths
centis(cs) == IF Len(cs) = 1 THEN 10 * IntOf(cs) ELSE IntOf(cs)

NoTime == [ok |-> FALSE, cs |-> 0]

\* time_to_seconds: the time in hundredths of a second, or None (NoTime)
time_to_seconds(t0) ==
  LET t == strip(t0)
      n == LeadDigits(t)
  IN
  IF MatchMinSecFrac(t)
    THEN [ok |-> TRUE,
          cs |-> 6000 * IntOf(SubSeq(t, 1, n)) + 100 * IntOf(SubSeq(t, n + 2, n + 3))
                 + centis(SubSeq(t, n + 5, Len(t)))]
  ELSE IF MatchMinSec(t)
    THEN [ok |-> TRUE,
          cs |-> 6000 * IntOf(SubSeq(t, 1, n)) + 100 * IntOf(SubSeq(t, n + 2, n + 3))]
  ELSE IF MatchSecFrac(t)
    THEN [ok |-> TRUE,
          cs |-> 100 * IntOf(SubSeq(t, 1, n)) + centis(SubSeq(t, n + 2, Len(t)))]
  ELSE NoTime

\* the characters of the strings handed to time_to_seconds: two digits, the
\* colon and both fraction separators
TimeDigits == {"0", "5"}
TimeChars == TimeDigits \cup {":", ".", ","}

RECURSIVE StringsOver(_, _)
\* the strings of at most n characters of the set chars
StringsOver(chars, n) ==
  IF n = 0 THEN {<< >>}
  ELSE LET shorter == StringsOver(chars, n - 1) IN
       shorter \cup {Append(x, c) : x \in {y \in shorter : Len(y) = n - 1}, c \in chars}

InitTime == InitSync /\ arg \in StringsOver(TimeChars, MaxTimeLen) /\ val = NoVal

CallTimeToSeconds ==
  /\ ~val.done
  /\ val' = [done |-> TRUE, r |-> time_to_seconds(arg)]
  /\ UNCHANGED <<arg, syncvars>>

NextTime == CallTimeToSeconds

SpecTime == InitTime /\ [][NextTime]_vars

\* -------------------------------------------------------- normalize.py
\* A name is a sequence of code points, each written as a string: itself, or
\* its U+ number for the combining mark.
LowerLetters ==
  <<"a", "b", "c", "d", "e", "f", "g", "h", "i", "j", "k", "l", "m",
    "n", "o", "p", "q", "r", "s", "t", "u", "v", "w", "x", "y", "z">>
UpperLetters ==
  <<"A", "B", "C", "D", "E", "F", "G", "H", "I", "J", "K", "L", "M",
    "N", "O", "P", "Q", "R", "S", "T", "U", "V", "W", "X", "Y", "Z">>

Range(s) == {s[j] : j \in 1..Len(s)}
IndexIn(s, c) == CHOOSE j \in 1..Len(s) : s[j] = c

CombiningAcute == "U+0301"

\* unicodedata.combining(ch) # 0
combining(ch) == ch = CombiningAcute

\* unicodedata.normalize("NFKD", ch) of one code point
NFKD(ch) ==
  CASE ch = "á" -> <<"a", CombiningAcute>>
    [] ch = "Á" -> <<"A", CombiningAcute>>
    [] OTHER -> <<ch>>

\* str.upper() of one code point: the sharp s becomes SS, its capital form
\* has no other upper case
upper(ch) ==
  CASE ch \in Range(LowerLetters) -> <<UpperLetters[IndexIn(LowerLetters, ch)]>>
    [] ch = "á" -> <<"Á">>
    [] ch = "ß" -> <<"S", "S">>
    [] OTHER -> <<ch>>

\* str.lower() of one code point
lower(ch) ==
  CASE ch \in Range(UpperLetters) -> <<LowerLetters[IndexIn(UpperLetters, ch)]>>
    [] ch = "Á" -> <<"á">>
    [] ch = "ẞ" -> <<"ß">>
    [] OTHER -> <<ch>>

RECURSIVE normalize_NFKD(_)
\* unicodedata.normalize("NFKD", s)
normalize_NFKD(s) ==
  IF s = << >> THEN << >> ELSE NFKD(s[1]) \o normalize_NFKD(Tail(s))

RECURSIVE str_upper(_)
\* s.upper()
str_upper(s) ==
  IF s = << >> THEN << >> ELSE upper(s[1]) \o str_upper(Tail(s))

\* Python's None where a string is expected: a value that is no string of
\* code points
None == <<"None">>

\* strip_accents, lines 5-9
strip_accents(s) ==
  IF s = None THEN << >>
  ELSE SelectSeq(normalize_NFKD(s), LAMBDA ch : ~combining(ch))

AlphaNum == Range(UpperLetters) \cup Digits

RECURSIVE SubRuns(_, _)
\* re.sub(r"[...]+", " ", s): every maximal run of code points of the set
\* class replaced by one blank
SubRuns(class, s) ==
  IF s = << >> THEN << >>
  ELSE IF s[1] \notin class THEN <<s[1]>> \o SubRuns(class, Tail(s))
  ELSE IF Len(s) >= 2 /\ s[2] \in class THEN SubRuns(class, Tail(s))
  ELSE <<" ">> \o SubRuns(class, Tail(s))

\* norm_key, lines 13-17
norm_key(s) ==
  LET s1 == strip_accents(IF s = None THEN << >> ELSE s)
      s2 == str_upper(s1)
      s3 == SubRuns(Range(s2) \ AlphaNum, s2)
  IN strip(SubRuns({" "}, s3))

\* the code points of the names handed to norm_key: a letter in both cases
\* and with an accent, the sharp s in both cases, a digit, a blank and a
\* punctuation sign
NameChars == {"a", "A", "á", "ß", "ẞ", "1", " ", ","}

InitNormKey ==
  /\ InitSync
  /\ arg \in {None} \cup StringsOver(NameChars, MaxNameLen)
  /\ val = NoVal

CallNormKey ==
  /\ ~val.done
  /\ val' = [done |-> TRUE, r |-> norm_key(arg)]
  /\ UNCHANGED <<arg, syncvars>>

NextNormKey == CallNormKey

SpecNormKey == InitNormKey /\ [][NextNormKey]_vars

\* --------------------------------------------------------- parse_v2.py
\* A line of page text is the sequence of its blank-separated tokens; a
\* page is a sequence of lines, a document a sequence of pages.
RankToks == {"3."}                       \* \d{1,3}\.
CommaWords == {"GARCIA,", "LOPEZ,"}      \* upper-case word and comma
NameWords == {"Ana", "Eva"}
UpperWords == {"LIGA", "DSQ", "PRUEBA", "LIBRE"}
SexToks == {"FEM."}
Int2Toks == {"08", "05"}                 \* \d{1,2}
Int3Toks == {"123"}                      \* \d{3}
ClockToks == {"1:02.45"}                 \* M:SS.cc
DecimalToks == {"32,40"}                 \* SS,cc, also the shape \d{1,4},\d{2}
LongToks == {"123.45"}                   \* \d{3}.\d{2}
DeltaToks == {"+0,72"}                   \* \+\d{1,3},\d{2}
DashToks == {"-"}
DateToks == {"1/2/2024"}                 \* \d{1,2}/\d{1,2}/\d{4}

\* the characters of a token
CharsOf(tok) ==
  CASE tok = "3." -> <<"3", ".">>
    [] tok = "GARCIA," -> <<"G", "A", "R", "C", "I", "A", ",">>
    [] tok = "LOPEZ," -> <<"L", "O", "P", "E", "Z", ",">>
    [] tok = "Ana" -> <<"A", "n", "a">>
    [] tok = "Eva" -> <<"E", "v", "a">>
    [] tok = "LIGA" -> <<"L", "I", "G", "A">>
    [] tok = "DSQ" -> <<"D", "S", "Q">>
    [] tok = "PRUEBA" -> <<"P", "R", "U", "E", "B", "A">>
    [] tok = "LIBRE" -> <<"L", "I", "B", "R", "E">>
    [] tok = "FEM." -> <<"F", "E", "M", ".">>
    [] tok = "08" -> <<"0", "8">>
    [] tok = "05" -> <<"0", "5">>
    [] tok = "123" -> <<"1", "2", "3">>
    [] tok = "1:02.45" -> <<"1", ":", "0", "2", ".", "4", "5">>
    [] tok = "32,40" -> <<"3", "2", ",", "4", "0">>
    [] tok = "123.45" -> <<"1", "2", "3", ".", "4", "5">>
    [] tok = "+0,72" -> <<"+", "0", ",", "7", "2">>
    [] tok = "-" -> <<"-">>
    [] tok = "+" -> <<"+">>
    [] tok = "1/2/2024" -> <<"1", "/", "2", "/", "2", "0", "2", "4">>
    [] tok = "1:02." -> <<"1", ":", "0", "2", ".">>
    [] tok = "32," -> <<"3", "2", ",">>
    [] tok = "123." -> <<"1", "2", "3", ".">>
    [] tok = "+0," -> <<"+", "0", ",">>

Letters == Range(LowerLetters) \cup Range(UpperLetters)

RECURSIVE JoinChars(_)
\* " ".join(tokens), as characters
JoinChars(toks) ==
  IF toks = << >> THEN << >>
  ELSE IF Len(toks) = 1 THEN CharsOf(toks[1])
  ELSE CharsOf(toks[1]) \o <<" ">> \o JoinChars(Tail(toks))

Front(s) == SubSeq(s, 1, Len(s) - 1)
Last(s) == s[Len(s)]

\* NAME_START (line 31) matches once for every upper-case word with a comma
\* that is followed by a token starting with a letter
NameStarts(ln) ==
  {j \in 1..(Len(ln) - 1) : ln[j] \in CommaWords /\ CharsOf(ln[j + 1])[1] \in Letters}

\* the match of NAME_START for the comma word at j starts with the
\* upper-case words that lead to it
RunStart(ln, j) ==
  CHOOSE i \in 1..j :
    /\ \A k \in i..(j - 1) : ln[k] \in UpperWords
    /\ \A h \in 1..(i - 1) : \E k \in h..(j - 1) : ln[k] \notin UpperWords

SetMin(S) == CHOOSE j \in S : \A k \in S : j <= k

RECURSIVE CutAt(_, _, _)
\* the pieces of ln that start at the positions of the set starts, from
\* position from on
CutAt(ln, starts, from) ==
  LET later == {j \in starts : j > from} IN
  IF later = {} THEN <<SubSeq(ln, from, Len(ln))>>
  ELSE <<SubSeq(ln, from, SetMin(later) - 1)>> \o CutAt(ln, starts, SetMin(later))

\* split_multi_swimmer_lines, lines 33-40: with two or more name starts the
\* line is cut at each of them and the text before the first is lost. The
\* cut is made between tokens; no piece starts with a rank.
split_multi_swimmer_lines(ln) ==
  LET starts == {RunStart(ln, j) : j \in NameStarts(ln)} IN
  IF Cardinality(starts) <= 1 THEN <<ln>>
  ELSE CutAt(ln, starts, SetMin(starts))

\* EVENT_LINE, lines 13-18: PRUEBA <number> <FEM.|MASC.> <rest>
EVENT_LINE(ln) ==
  /\ Len(ln) >= 4
  /\ ln[1] = "PRUEBA"
  /\ ln[2] \in Int2Toks \cup Int3Toks
  /\ ln[3] \in SexToks

\* line 143: the line starts with DSQ, NP or BAJA
StartsWithMarker(ln) == ln # << >> /\ ln[1] = "DSQ"

\* lines 145-151: the four trailing strips, the first three of a token that
\* follows white space
StripDelta(ln) == IF Len(ln) >= 2 /\ Last(ln) \in DeltaToks THEN Front(ln) ELSE ln
StripPoints(ln) ==
  IF Len(ln) >= 2 /\ Last(ln) \in Int2Toks \cup Int3Toks THEN Front(ln) ELSE ln
StripDecimalPoints(ln) ==
  IF Len(ln) >= 2 /\ Last(ln) \in DecimalToks THEN Front(ln) ELSE ln
StripDash(ln) == IF Len(ln) >= 1 /\ Last(ln) \in DashToks THEN Front(ln) ELSE ln

StripTrailing(ln) == StripDash(StripDecimalPoints(StripPoints(StripDelta(ln))))

\* TIME_AT_END.search, lines 20-25: the time at the end of the line and the
\* tokens before it. A rank followed by a one- or two-digit number reads as
\* seconds and fraction; the digits of a delta read as a time.
NoMatch == [found |-> FALSE, prefix |-> << >>, str |-> << >>]
TIME_AT_END(ln) ==
  IF ln = << >> THEN NoMatch
  ELSE IF Last(ln) \in ClockToks \cup DecimalToks \cup LongToks
    THEN [found |-> TRUE, prefix |-> Front(ln), str |-> CharsOf(Last(ln))]
  ELSE IF Last(ln) \in DeltaToks
    THEN [found |-> TRUE, prefix |-> Append(Front(ln), "+"),
          str |-> Tail(CharsOf(Last(ln)))]
  ELSE IF Len(ln) >= 2 /\ Last(ln) \in Int2Toks /\ ln[Len(ln) - 1] \in RankToks
    THEN [found |-> TRUE, prefix |-> SubSeq(ln, 1, Len(ln) - 2),
          str |-> CharsOf(ln[Len(ln) - 1]) \o CharsOf(Last(ln))]
  ELSE NoMatch

\* any first token followed by white space
POS_PREFIX_any_start(ln) == Len(ln) >= 2

\* POS_PREFIX, line 27: a rank and white space at the start
POS_PREFIX(ln) == Len(ln) >= 2 /\ ln[1] \in RankToks

\* line 158: .replace(",", ".")
CommaToDot(s) == [j \in 1..Len(s) |-> IF s[j] = "," THEN "." ELSE s[j]]

\* None for the birth year
NoYear == -1

\* the matches of \b(\d{1,2})\b in the text before the time: the numbers
\* of one or two digits, the digits of a rank, and the two digits at the end
\* of a time, a decimal or a delta
EndsInNumber(tok) == tok \in ClockToks \cup DecimalToks \cup LongToks \cup DeltaToks
IsNumber(tok) == tok \in Int2Toks \cup RankToks \/ EndsInNumber(tok)
NumberOf(tok) ==
  IF EndsInNumber(tok)
    THEN IntOf(SubSeq(CharsOf(tok), Len(CharsOf(tok)) - 1, Len(CharsOf(tok))))
    ELSE IntOf(SelectSeq(CharsOf(tok), LAMBDA ch : ch \in Digits))
\* the part of such a token before its last number
BeforeNumber(tok) ==
  CASE tok = "1:02.45" -> <<"1:02.">> [] tok = "32,40" -> <<"32,">>
    [] tok = "123.45" -> <<"123.">> [] tok = "+0,72" -> <<"+0,">>
    [] OTHER -> << >>

\* _extract_name_yob2, lines 49-77
extract_name_yob2(prefix) ==
  LET s == IF POS_PREFIX(prefix) THEN Tail(prefix) ELSE prefix
      nums == {j \in 1..Len(s) : IsNumber(s[j])}
      cut == CHOOSE j \in nums : \A k \in nums : k <= j
      numeric == {j \in 1..Len(s) : s[j] \in Int2Toks \cup Int3Toks}
  IN IF nums # {} /\ (cut > 1 \/ EndsInNumber(s[cut]))
       THEN [swimmer |-> SubSeq(s, 1, cut - 1) \o BeforeNumber(s[cut]),
             age |-> NumberOf(s[cut])]
       ELSE [swimmer |-> IF numeric = {} THEN s
                         ELSE SubSeq(s, 1, SetMin(numeric) - 1),
             age |-> NoYear]

\* ------------------------------------------------------------ events.py
\* _EVENT_RE, lines 15-18: a distance of two to four digits followed by a
\* stroke word
EventMatches(rest) ==
  {j \in 1..(Len(rest) - 1) : rest[j] \in Int2Toks \cup Int3Toks /\ rest[j + 1] = "LIBRE"}

\* f"{dist}m {disp}", lines 51-53
EventName(dist) ==
  CASE dist = "08" -> <<"8m", "Libre">>
    [] dist = "05" -> <<"5m", "Libre">>
    [] dist = "123" -> <<"123m", "Libre">>

\* str.upper() of a token
UpperTok(tok) ==
  CASE tok = "Ana" -> "ANA" [] tok = "Eva" -> "EVA" [] OTHER -> tok

\* extract_event_and_category, lines 41-54, and the upper-casing of the
\* category at parse_v2.py:137-138; rest holds numbers and words
extract_event_and_category(rest) ==
  LET ms == EventMatches(rest)
      m == SetMin(ms)
      cat == SubSeq(rest, 1, m - 1) \o SubSeq(rest, m + 2, Len(rest))
  IN IF ms = {} THEN [event |-> rest, cat |-> None]
     ELSE [event |-> EventName(rest[m]),
           cat |-> IF cat = << >> THEN None
                   ELSE [j \in 1..Len(cat) |-> UpperTok(cat[j])]]

\* ---------------------------------------------- parse_splash_results
HeadLines == 10

DropComma(tok) ==
  CASE tok = "GARCIA," -> "GARCIA" [] tok = "LOPEZ," -> "LOPEZ"

\* PLACE_DATE_LINE, line 11: <place>, <date>
PLACE_DATE_LINE(ln) ==
  Len(ln) >= 2 /\ Last(ln) \in DateToks /\ ln[Len(ln) - 1] \in CommaWords

\* lines 105-111: the state before the first page
InitialState ==
  [meet_name |-> None, meet_place |-> None, meet_date |-> None,
   current_event |-> None, current_event_num |-> None, current_sex |-> None,
   current_cat |-> None, rows |-> << >>]

\* lines 121-126: one of the first lines of a page
ScanMeetLine(st, ln) ==
  LET st1 == IF st.meet_name = None /\ \E j \in 1..Len(ln) : ln[j] = "LIGA"
               THEN [st EXCEPT !.meet_name = ln] ELSE st
  IN IF PLACE_DATE_LINE(ln) /\ st1.meet_date = None
       THEN [st1 EXCEPT !.meet_place = Append(SubSeq(ln, 1, Len(ln) - 2),
                                              DropComma(ln[Len(ln) - 1])),
                        !.meet_date = <<Last(ln)>>]
       ELSE st1

\* lines 140-181 of a line that is no event header: the row it gives, if any
RowsOfLine(st, ln0, category_path) ==
  LET ln == StripTrailing(ln0)
      mt == TIME_AT_END(ln)
      t_sec == time_to_seconds(CommaToDot(mt.str))
      who == extract_name_yob2(mt.prefix)
  IN IF StartsWithMarker(ln0) \/ ~mt.found \/ ~POS_PREFIX(ln) \/ ~t_sec.ok
       THEN << >>
       ELSE <<[category |-> category_path,
               meet_name |-> st.meet_name,
               meet_place |-> st.meet_place,
               meet_date |-> st.meet_date,
               event_num |-> st.current_event_num,
               sex |-> st.current_sex,
               event |-> IF st.current_event = None THEN <<"UNKNOWN">>
                         ELSE st.current_event,
               event_category |-> st.current_cat,
               swimmer |-> who.swimmer,
               age |-> who.age,
               time_seconds |-> t_sec.cs,
               raw_line |-> ln]>>

\* lines 130-181: one sub-line
StepLine(st, ln, category_path) ==
  IF EVENT_LINE(ln)
    THEN LET ec == extract_event_and_category(SubSeq(ln, 4, Len(ln))) IN
         [st EXCEPT !.current_event_num = <<ln[2]>>,
                    !.current_sex = <<"FEM">>,
                    !.current_event = ec.event,
                    !.current_cat = ec.cat]
    ELSE [st EXCEPT !.rows = @ \o RowsOfLine(st, ln, category_path)]

RECURSIVE StepSubLines(_, _, _)
\* line 129: the sub-lines of one line, in order
StepSubLines(st, sublines, category_path) ==
  IF sublines = << >> THEN st
  ELSE StepSubLines(StepLine(st, sublines[1], category_path), Tail(sublines),
                    category_path)

RECURSIVE ScanMeet(_, _)
\* lines 120-126: the first lines of a page, in order
ScanMeet(st, lines) ==
  IF lines = << >> THEN st ELSE ScanMeet(ScanMeetLine(st, lines[1]), Tail(lines))

RECURSIVE StepLines(_, _, _)
\* lines 128-181: the lines of a page, in order, each split first
StepLines(st, lines, category_path) ==
  IF lines = << >> THEN st
  ELSE StepLines(StepSubLines(st, split_multi_swimmer_lines(lines[1]), category_path),
                 Tail(lines), category_path)

\* a page that starts without a current event
StepPage_event_per_page(st, page, category_path) ==
  LET lines == SelectSeq(page, LAMBDA ln : ln # << >>)
      head == SubSeq(lines, 1, IF Len(lines) < HeadLines THEN Len(lines) ELSE HeadLines)
      st0 == [st EXCEPT !.current_event = None, !.current_event_num = None,
                        !.current_sex = None, !.current_cat = None]
  IN StepLines(ScanMeet(st0, head), lines, category_path)

\* lines 116-181: one page; lines that are empty are left out at line 118
StepPage(st, page, category_path) ==
  LET lines == SelectSeq(page, LAMBDA ln : ln # << >>)
      head == SubSeq(lines, 1, IF Len(lines) < HeadLines THEN Len(lines) ELSE HeadLines)
  IN StepLines(ScanMeet(st, head), lines, category_path)

RECURSIVE StepPages(_, _, _)
\* line 116: the pages in order
StepPages(st, pages, category_path) ==
  IF pages = << >> THEN st
  ELSE StepPages(StepPage(st, pages[1], category_path), Tail(pages), category_path)

\* lines 105-183 of parse_splash_results, on the text of the pages that
\* pdfplumber extracts
parse_page_texts(pages, category_path) ==
  StepPages(InitialState, pages, category_path).rows

\* the result lines handed to the extractor: a rank, up to MaxPrefixToks
\* tokens of name and numbers, a finish time, and the trailing columns in
\* the order in which lines 145-151 strip them
PrefixToks == {"GARCIA,", "Ana", "08", "05", "123"}
FinishToks == ClockToks \cup DecimalToks
TrailingColumns ==
  {dash \o dec \o pts \o delta :
     dash \in {<< >>, <<"-">>}, dec \in {<< >>, <<"32,40">>},
     pts \in {<< >>, <<"123">>}, delta \in {<< >>, <<"+0,72">>}}
ResultLines ==
  {<<"3.">> \o pre \o <<t>> \o cols :
     pre \in StringsOver(PrefixToks, MaxPrefixToks), t \in FinishToks,
     cols \in TrailingColumns}

\* result lines with up to MaxNoise noise fields after the time, in any order
NoiseToks == DeltaToks \cup Int3Toks \cup DecimalToks \cup DashToks
NoiseLines ==
  {<<"3.", "GARCIA,", "Ana", "08", t>> \o cols :
     t \in FinishToks, cols \in StringsOver(NoiseToks, MaxNoise)}

\* a swimmer entry, and the lines on which two entries are rendered
Entries ==
  {<<"3.", cw, nw, yy, "1:02.45">> :
     cw \in CommaWords, nw \in NameWords, yy \in Int2Toks}
MultiLines == {e1 \o e2 : e1 \in Entries, e2 \in Entries}

\* a rank followed by up to two numbers or dashes
RankLines == {<<"3.">> \o x : x \in StringsOver({"08", "123", "-"}, 2)}

\* the lines of the documents of several lines: result lines, event
\* headers, a title, a place and date, and lines the extractor drops
PageLines ==
  {<<"3.", "GARCIA,", "Ana", "08", "1:02.45">>,
   <<"3.", "LOPEZ,", "Eva", "1:02.45", "123">>,
   <<"PRUEBA", "08", "FEM.", "123", "LIBRE">>,
   <<"PRUEBA", "05", "FEM.", "Ana", "123", "LIBRE">>,
   <<"LIGA", "123">>,
   <<"GARCIA,", "1/2/2024">>,
   <<"DSQ", "GARCIA,", "Ana", "08">>,
   <<"3.", "GARCIA,", "Ana", "08", "123.45">>,
   <<"3.", "GARCIA,", "Ana", "08">>,
   <<"GARCIA,", "Ana", "08", "1:02.45">>,
   <<"3.", "GARCIA,", "Ana", "LOPEZ,", "Eva", "08", "1:02.45">>}

Prefix(s, k) == SubSeq(s, 1, IF k < Len(s) THEN k ELSE Len(s))
Suffix(s, k) == SubSeq(s, (IF k < Len(s) THEN k ELSE Len(s)) + 1, Len(s))

\* documents of one result line, noise line or line of two entries, and
\* documents of up to n lines on one page or two
Documents(n) ==
  {<<<<ln>>>> : ln \in ResultLines \cup NoiseLines \cup MultiLines \cup RankLines}
  \cup {<<lines>> : lines \in StringsOver(PageLines, n)}
  \cup {<<Prefix(lines, k), Suffix(lines, k)>> :
          lines \in StringsOver(PageLines, n), k \in 0..n}

InitExtract ==
  /\ InitSync
  /\ arg \in {[pages |-> d, category_path |-> c] : d \in Documents(MaxLines), c \in Categories}
  /\ val = NoVal

CallParseSplashResults ==
  /\ ~val.done
  /\ val' = [done |-> TRUE, r |-> parse_page_texts(arg.pages, arg.category_path)]
  /\ UNCHANGED <<arg, syncvars>>

NextExtract == CallParseSplashResults

SpecExtract == InitExtract /\ [][NextExtract]_vars

\* ------------------------------------------- events.py, on characters
\* STROKES, lines 4-10: the variants of each canonical stroke, in upper case
StrokeVariants ==
  {[canon |-> "LIBRE", v |-> <<"L", "I", "B", "R", "E">>],
   [canon |-> "LIBRE", v |-> <<"L", "I", "B", "R", "E", "S">>],
   [canon |-> "LIBRE", v |-> <<"C", "R", "O", "L">>],
   [canon |-> "LIBRE", v |-> <<"C", "R", "A", "W", "L">>],
   [canon |-> "LIBRE", v |-> <<"F", "R", "E", "E">>],
   [canon |-> "LIBRE", v |-> <<"F", "R", "E", "E", "S", "T", "Y", "L", "E">>],
   [canon |-> "ESPALDA", v |-> <<"E", "S", "P", "A", "L", "D", "A">>],
   [canon |-> "ESPALDA", v |-> <<"B", "A", "C", "K">>],
   [canon |-> "ESPALDA", v |-> <<"B", "A", "C", "K", "S", "T", "R", "O", "K", "E">>],
   [canon |-> "BRAZA", v |-> <<"B", "R", "A", "Z", "A">>],
   [canon |-> "BRAZA", v |-> <<"B", "R", "A", "S", "A">>],
   [canon |-> "BRAZA", v |-> <<"B", "R", "E", "A", "S", "T">>],
   [canon |-> "BRAZA",
    v |-> <<"B", "R", "E", "A", "S", "T", "S", "T", "R", "O", "K", "E">>],
   [canon |-> "MARIPOSA", v |-> <<"M", "A", "R", "I", "P", "O", "S", "A">>],
   [canon |-> "MARIPOSA", v |-> <<"F", "L", "Y">>],
   [canon |-> "MARIPOSA", v |-> <<"B", "U", "T", "T", "E", "R", "F", "L", "Y">>],
   [canon |-> "ESTILOS", v |-> <<"E", "S", "T", "I", "L", "O", "S">>],
   [canon |-> "ESTILOS", v |-> <<"M", "E", "D", "L", "E", "Y">>],
   [canon |-> "ESTILOS", v |-> <<"I", "M">>]}

\* line 35: "Libre" if stroke == "LIBRE" else stroke.capitalize()
Display(canon) ==
  CASE canon = "LIBRE" -> <<"L", "i", "b", "r", "e">>
    [] canon = "ESPALDA" -> <<"E", "s", "p", "a", "l", "d", "a">>
    [] canon = "BRAZA" -> <<"B", "r", "a", "z", "a">>
    [] canon = "MARIPOSA" -> <<"M", "a", "r", "i", "p", "o", "s", "a">>
    [] canon = "ESTILOS" -> <<"E", "s", "t", "i", "l", "o", "s">>

\* the characters \w matches
WordChars == Letters \cup Digits \cup {"_"}

\* \b at position p of s, between s[p - 1] and s[p]
WordBoundary(s, p) ==
  (p > 1 /\ s[p - 1] \in WordChars) # (p <= Len(s) /\ s[p] \in WordChars)

\* the upper case of a character, for re.IGNORECASE
UpperChar(ch) ==
  IF ch \in Range(LowerLetters) THEN UpperLetters[IndexIn(LowerLetters, ch)] ELSE ch

\* the word w, in upper case, is at position p of s whatever the letter case
WordAt(s, p, w) ==
  /\ p + Len(w) - 1 <= Len(s)
  /\ \A j \in 1..Len(w) : UpperChar(s[p + j - 1]) = w[j]

RECURSIVE SkipBlanks(_, _)
\* the position after the white space \s* takes at position p
SkipBlanks(s, p) == IF p <= Len(s) /\ s[p] = " " THEN SkipBlanks(s, p + 1) ELSE p

\* the length of the run of digits at position p
DigitsAt(s, p) == LeadDigits(SubSeq(s, p, Len(s)))

\* the position after (?:m\b|M\b)? at position p
SkipUnit(s, p) ==
  IF p <= Len(s) /\ UpperChar(s[p]) = "M" /\ WordBoundary(s, p + 1) THEN p + 1 ELSE p

\* the stroke variants _EVENT_RE matches at position p: the text of the
\* variant and a word boundary after it
StrokesAt(s, p) ==
  {sv \in StrokeVariants : WordAt(s, p, sv.v) /\ WordBoundary(s, p + Len(sv.v))}

\* where the stroke of _EVENT_RE (lines 15-18) is looked for when the
\* distance starts at position p
StrokePos(s, p) == SkipBlanks(s, SkipUnit(s, SkipBlanks(s, p + DigitsAt(s, p))))

\* _EVENT_RE matches at position p
EventAt(s, p) ==
  /\ WordBoundary(s, p)
  /\ DigitsAt(s, p) \in 2..4
  /\ StrokesAt(s, StrokePos(s, p)) # {}

\* line 37: \b(\d{2,4})\b matches at position p
DistanceAt(s, p) ==
  /\ WordBoundary(s, p)
  /\ DigitsAt(s, p) \in 2..4
  /\ WordBoundary(s, p + DigitsAt(s, p))

NoDistance == -1
NoStroke == "none"

RECURSIVE DecimalChars(_)
\* str(n) of a natural number
DecimalChars(n) ==
  LET d == CHOOSE c \in Digits : DigitVal(c) = n % 10 IN
  IF n < 10 THEN <<d>> ELSE Append(DecimalChars(n \div 10), d)

\* normalize_event_name, lines 27-39
normalize_event_name(raw_event) ==
  LET s == SubRuns({" "}, strip(raw_event))
      ms == {p \in 1..Len(s) : EventAt(s, p)}
      m == SetMin(ms)
      dist == IntOf(SubSeq(s, m, m + DigitsAt(s, m) - 1))
      stroke == (CHOOSE sv \in StrokesAt(s, StrokePos(s, m)) : TRUE).canon
      m2s == {p \in 1..Len(s) : DistanceAt(s, p)}
      m2 == SetMin(m2s)
  IN IF ms # {}
       THEN [name |-> DecimalChars(dist) \o <<"m", " ">> \o Display(stroke),
             dist |-> dist, stroke |-> stroke]
       ELSE [name |-> s,
             dist |-> IF m2s = {} THEN NoDistance
                      ELSE IntOf(SubSeq(s, m2, m2 + DigitsAt(s, m2) - 1)),
             stroke |-> NoStroke]

\* the texts handed to normalize_event_name: up to MaxPieces of these pieces
\* put together
EventPieces == {"4", "x", "100", "25", " ", "m", "Libre", "ESTILOS"}
PieceChars(piece) ==
  CASE piece = "4" -> <<"4">>
    [] piece = "x" -> <<"x">>
    [] piece = "100" -> <<"1", "0", "0">>
    [] piece = "25" -> <<"2", "5">>
    [] piece = " " -> <<" ">>
    [] piece = "m" -> <<"m">>
    [] piece = "Libre" -> <<"L", "i", "b", "r", "e">>
    [] piece = "ESTILOS" -> <<"E", "S", "T", "I", "L", "O", "S">>

RECURSIVE Flatten(_)
Flatten(pieces) ==
  IF pieces = << >> THEN << >> ELSE PieceChars(pieces[1]) \o Flatten(Tail(pieces))

\* the texts of up to n pieces
EventTexts(n) == {Flatten(ps) : ps \in StringsOver(EventPieces, n)}

InitEvent == InitSync /\ arg \in EventTexts(MaxPieces) /\ val = NoVal

CallNormalizeEventName ==
  /\ ~val.done
  /\ val' = [done |-> TRUE, r |-> normalize_event_name(arg)]
  /\ UNCHANGED <<arg, syncvars>>

NextEvent == CallNormalizeEventName

SpecEvent == InitEvent /\ [][NextEvent]_vars

\* ====================================================================
\* Properties
\* ====================================================================

\* the finished invocation returned normally
Returned == ret.status = "returned"
\* the invocation before it returned normally too
AfterCompletedRun == Returned /\ prevAtCall.returned

\* C1: a sync that returns after a completed sync, against a listing with the
\* same (path, etag, size) entries, has downloaded nothing, written no files row
\* and run no DELETE/INSERT on results, and has counted every listed document
\* as skipped-unchanged.
C1_RerunDoesNothing ==
  (AfterCompletedRun /\ prevAtCall.listed = last.listed) =>
     /\ log.downloaded = {}
     /\ log.upserted = {}
     /\ log.replaced = {}
     /\ ret.stats.omitidos_sin_cambios = ret.stats.pdfs_encontrados

\* the listings of the last two invocations name the same paths and differ in
\* the etag of document p only
OnlyEtagOfChanged(p) ==
  \E a \in prevAtCall.listed, b \in last.listed :
     /\ a.path = p /\ b.path = p /\ a.etag # b.etag
     /\ prevAtCall.listed \ {a} = last.listed \ {b}

\* C2: when one document of a synced listing has a new etag and the sync is run
\* again, that document is the only one downloaded, the only one whose files
\* row is written and the only one whose result rows are deleted or inserted.
C2_OnlyChangedDocumentReprocessed ==
  \A p \in Paths :
     (AfterCompletedRun /\ OnlyEtagOfChanged(p)) =>
        /\ log.downloaded \subseteq {p}
        /\ log.upserted \subseteq {p}
        /\ log.replaced \subseteq {p}

\* the rows table results must hold for path p after the bytes c were parsed
\* in scope category_path under the tag tag
StoredRows(p, c, category_path, tag) ==
  [j \in 1..Len(Contents[c].rows) |->
     [file_path |-> p, category |-> category_path, row |-> Contents[c].rows[j],
      dataset_tag |-> tag]]

\* the step just taken processed a document classified as results
ProcessedResults ==
  ev.op = "processed" /\ score_results_pdf(ev.content) >= Threshold

\* C3: after sync has processed a document classified as results, the rows of
\* its path, as the connection sees them and as committed, are exactly the rows
\* parsed from the bytes just downloaded, in order: nothing older, nothing
\* missing.
C3_RowsAreTheLatestParse ==
  ProcessedResults =>
     /\ RowsOf(results, ev.e.path) =
           StoredRows(ev.e.path, ev.content, run.category_path, dataset_tag)
     /\ RowsOf(cresults, ev.e.path) =
           StoredRows(ev.e.path, ev.content, run.category_path, dataset_tag)

\* C3 witness: a document that has rows, and that the completed sync before
\* listed under another etag, is processed again with bytes that parse to no row
C3_Witness ==
  /\ ProcessedResults
  /\ Contents[ev.content].rows = << >>
  /\ ev.had > 0
  /\ prevAtCall.returned
  /\ \E k \in prevAtCall.listed : k.path = ev.e.path /\ k.etag # ev.e.etag

\* C4: a path whose files row says non-results (the last processing classified
\* it below the threshold) has no result row in the store, also when rows were
\* committed for it while it was classified as results.
C4_NonResultsHasNoRows ==
  \A r \in files : r.is_results = 0 => RowsOf(cresults, r.path) = << >>

\* C5: the committed rows of a path are always one complete parse output (the
\* prior rows or the new rows in full): never the leftover of a replacement
\* that stopped between its DELETE and its last INSERT.
C5_CommittedRowsAreComplete ==
  \A p \in Paths :
     LET rs == RowsOf(cresults, p) IN
     \/ rs = << >>
     \/ \E c \in ContentIds : [j \in 1..Len(rs) |-> rs[j].row] = Contents[c].rows

\* C6: the new (etag, size) of a document is recorded only after its rows were
\* replaced: when the extractor or the row storage fails, the document is still
\* detected as new or changed.
C6_MetadataRecordedAfterRows ==
  ev.op \in {"parse_raised", "insert_failed"} => file_is_new_or_changed(files, ev.e)

\* C7: after a sync that ended in a failed download, the failed document is
\* still detected as new or changed, and every document processed earlier in
\* that run keeps the files row written for it, so it is not detected as changed.
C7_DownloadFailureWritesNothing ==
  /\ ev.op = "download_failed" => file_is_new_or_changed(files, ev.e)
  /\ (ret.status = "raised" /\ ret.by = "download_file") =>
        \A k \in log.processed :
           ~file_is_new_or_changed(files, [path |-> k.path, etag |-> k.etag,
                                           size |-> k.size, last_modified |-> NULL])

\* C8, the signal: whatever files holds, the entry a listing shows for a
\* document is new or changed exactly when no stored row of its path has both
\* its etag and its size
C8_Signal ==
  \A p \in Paths :
     file_is_new_or_changed(files, DavEntry(p)) <=>
        <<DavEntry(p).etag, DavEntry(p).size>> \notin
           {<<r.etag, r.size>> : r \in {x \in files : x.path = p}}

\* C8, the skip: a step that skips a document is taken on an entry that is not
\* new or changed, downloads nothing and leaves both tables as they were
C8_Skip ==
  ev'.op = "skip_unchanged" =>
     /\ ~file_is_new_or_changed(files, ev'.e)
     /\ files' = files /\ results' = results
     /\ cfiles' = cfiles /\ cresults' = cresults
     /\ log'.downloaded = log.downloaded /\ log'.upserted = log.upserted
     /\ log'.replaced = log.replaced /\ log'.processed = log.processed
     /\ log'.listed = log.listed

\* C8: (etag, size) is the sole staleness signal, and a document it reports
\* unchanged is skipped with no download, no files upsert and no row
\* replacement, whatever its last-modified value and the run's dataset tag.
C8_EtagSizeSoleSignal == [](C8_Signal) /\ [][C8_Skip]_vars

\* C8 witness: a document is skipped though the listing shows another
\* last-modified value than the stored one and the run has another tag
C8_Witness ==
  /\ ev.op = "skip_unchanged"
  /\ \E r \in files : /\ r.path = ev.e.path
                      /\ r.last_modified # ev.e.last_modified
                      /\ r.dataset_tag # dataset_tag

\* C9: an exception raised by the progress callback never ends an invocation:
\* no sync ends with the callback's exception.
C9_CallbackNeverAborts ==
  ~(ret.status = "raised" /\ ret.by = "progress_cb")

\* C10: when the extractor raises for a document classified as results, the
\* sync goes on: the step is not the end of the invocation.
C10_ExtractorFailureNotFatal ==
  ev.op = "parse_raised" => ret.status = "running"

\* the step just taken processed a document whose bytes pdfplumber cannot open
ProcessedUnreadable == ev.op = "processed" /\ ~Contents[ev.content].open_ok

\* C11: when the document cannot be opened or its text cannot be read,
\* score_results_pdf gives 0 and is_results_pdf (false, 0), and sync_category
\* records the document as processed and non-results with score 0 and goes on:
\* the invocation is still running, past that document.
C11_ClassificationNeverAborts ==
  /\ \A c \in ContentIds :
        ~Contents[c].open_ok =>
           /\ score_results_pdf(c) = 0
           /\ is_results_pdf(c) = [is_res |-> FALSE, score |-> 0]
  /\ ProcessedUnreadable =>
        /\ \E r \in files : /\ r.path = ev.e.path
                            /\ r.etag = ev.e.etag /\ r.size = ev.e.size
                            /\ r.is_results = 0 /\ r.results_score = 0
        /\ Key(ev.e) \in log.processed
        /\ ev.e.path \notin log.replaced
        /\ run.active /\ ret.status = "running"
        /\ run.done >= 1 /\ run.pdfs[run.i - 1] = ev.e
        /\ run.stats.pdfs_no_resultados >= 1
        /\ run.stats.procesados = run.stats.pdfs_resultados + run.stats.pdfs_no_resultados

\* C11 witness: an unreadable document was processed and the loop stands at
\* the document listed after it
C11_Witness == ProcessedUnreadable /\ AtEntry

\* the part of the score the markers of the text d give
MarkerScore(d) ==
  LET both == d.clasificacion /\ d.tiempo
      twos == Cardinality({m \in {"resultados", "prueba"} : d[m]})
              + (IF both THEN 1 ELSE 0)
  IN  2 * twos + (IF d.signature THEN 3 ELSE 0)

\* C12: the score is 3 for the signature, 2 for the results keyword, 2 for an
\* event-number marker, 2 for both headers together, plus the number of
\* rank-shaped lines up to 6: it lies in 0..15, a seventh line adds nothing,
\* and the document is classified as results exactly from score 6 on.
C12_ScoreAndThreshold ==
  val.done =>
     /\ val.r.score = MarkerScore(arg) + (IF arg.hits <= 6 THEN arg.hits ELSE 6)
     /\ val.r.score \in 0..15
     /\ arg.hits >= 6 => val.r.score = MarkerScore(arg) + 6
     /\ val.r.is_res = (val.r.score >= 6)
     /\ val.r.score = 6 => val.r.is_res
     /\ val.r.score = 5 => ~val.r.is_res

\* C12 witness: a text with seven rank-shaped lines and no marker scores
\* exactly 6 and is classified as results
C12_Witness ==
  /\ val.done /\ arg.hits = 7 /\ MarkerScore(arg) = 0
  /\ val.r = [is_res |-> TRUE, score |-> 6]

\* C13: when sync_category has returned, the files row of every document it
\* processed, those scoring below the threshold included, is committed with
\* the listed etag and size: a new connection sees it and skips the document.
C13_ProcessedFilesCommitted ==
  (ret.status = "returned" /\ ret.by = "sync_category") =>
     \A k \in log.processed :
        /\ \E r \in cfiles : r.path = k.path /\ r.etag = k.etag /\ r.size = k.size
        /\ ~file_is_new_or_changed(cfiles, [path |-> k.path, etag |-> k.etag,
                                            size |-> k.size, last_modified |-> NULL])

\* sync_category, called by the user, has just returned
CategoryJustReturned ==
  ev.op = "category_returned" /\ ret.status = "returned" /\ ret.by = "sync_category"

\* the entries the invocation processed and classified as results, and those
\* of them whose bytes parse to no row (the share is not modified during a run)
ResultsProcessed ==
  {k \in log.processed : is_results_pdf(download_file(k.path)).is_res}
ZeroRowsProcessed ==
  {k \in ResultsProcessed : Contents[download_file(k.path)].rows = << >>}

\* C14: on normal return of sync_category, found = processed + skipped,
\* processed = results + non-results, zero-rows <= results; every listed
\* document is counted once, as skipped, results or non-results, and zero-rows
\* counts exactly the results documents whose parse gave no row.
C14_CountersAddUp ==
  CategoryJustReturned =>
     LET st == ret.stats IN
     /\ st.pdfs_encontrados = st.procesados + st.omitidos_sin_cambios
     /\ st.procesados = st.pdfs_resultados + st.pdfs_no_resultados
     /\ st.resultados_detectados_sin_filas <= st.pdfs_resultados
     /\ st.pdfs_encontrados = Cardinality(log.listed)
     /\ log.processed \subseteq log.listed
     /\ st.omitidos_sin_cambios = Cardinality(log.listed \ log.processed)
     /\ st.pdfs_resultados = Cardinality(ResultsProcessed)
     /\ st.pdfs_no_resultados = Cardinality(log.processed \ ResultsProcessed)
     /\ st.resultados_detectados_sin_filas = Cardinality(ZeroRowsProcessed)

\* C14 witness: a run returns that skipped one document and processed a results
\* document without rows
C14_Witness ==
  /\ CategoryJustReturned
  /\ ret.stats.omitidos_sin_cambios >= 1
  /\ ret.stats.resultados_detectados_sin_filas >= 1

RECURSIVE FoundIn(_, _)
\* the number of entries the listings of the scopes cs[j..] hold
FoundIn(cs, j) ==
  IF j > Len(cs) THEN 0 ELSE Len(walk_pdfs(cs[j])) + FoundIn(cs, j + 1)

\* C15, within a call: a document the call has processed in an earlier scope
\* is not new or changed when a later scope lists it
C15_SecondTimeUnchanged ==
  (multi.active /\ AtEntry /\ Cur.path \in {k.path : k \in log.processed})
     => ~file_is_new_or_changed(files, Cur)

\* C15, the steps: scopes are entered one at a time in the order given; the
\* counters of each returning sync_category are added to the sums; no document
\* is processed twice in one call; the call returns dirs = number of scopes
\* and, for each counter, the sum over the scopes; with no scope nothing is
\* listed or downloaded and every counter is zero.
C15_Step ==
  /\ ev'.op = "enter_category" =>
        /\ ~run.active /\ multi' = multi
        /\ run'.category_path = multi.category_paths[multi.i]
  /\ (ev'.op = "category_returned" /\ multi.active) =>
        /\ multi'.i = multi.i + 1
        /\ \A f \in DOMAIN ZeroStats :
              multi'.agg[f] = multi.agg[f] +
                 (IF f = "pdfs_encontrados" THEN Len(run.pdfs) ELSE run.stats[f])
  /\ (ev'.op = "processed" /\ multi.active) => ev'.e.path \notin log.downloaded
  /\ ev'.op = "returned" =>
        LET cs == multi.category_paths
            st == ret'.stats
        IN /\ ret'.status = "returned" /\ ret'.dirs = Len(cs)
           /\ multi.i = Len(cs) + 1
           /\ st.pdfs_encontrados = FoundIn(cs, 1)
           /\ st.procesados = Cardinality(log.processed)
           /\ st.omitidos_sin_cambios = FoundIn(cs, 1) - Cardinality(log.processed)
           /\ st.pdfs_resultados = Cardinality(ResultsProcessed)
           /\ st.pdfs_no_resultados = Cardinality(log.processed \ ResultsProcessed)
           /\ st.resultados_detectados_sin_filas = Cardinality(ZeroRowsProcessed)
           /\ cs = << >> => (st = ZeroStats /\ log = NoLog)

\* C15: sync_multiple_categories processes the scopes in the given order, one
\* at a time, and returns the sums of the scopes' counters with dirs = number
\* of scopes (all zero and no remote call for no scope); a document two scopes
\* of the call reach is processed once and skipped the second time.
C15_MultipleScopesSummed == [](C15_SecondTimeUnchanged) /\ [][C15_Step]_vars

\* C15 witness: the first call of a behaviour went through two scopes that
\* share a document, processed two documents and skipped the shared one
C15_Witness ==
  /\ ev.op = "returned" /\ nCalls = 1
  /\ ret.dirs = 2
  /\ ret.stats.pdfs_encontrados = MaxDocs + 1
  /\ ret.stats.procesados = MaxDocs
  /\ ret.stats.omitidos_sin_cambios = 1

\* the files row of path p in table t, as a set with at most one element
FileRow(t, p) == {r \in t : r.path = p}

\* C16: in every step of a sync invocation with dataset tag T, in every scope
\* of it, the files rows and the result rows the invocation has written carry
\* the tag T, and the rows of every path it has not written (the documents it
\* skips as unchanged among them) stay as they were, tag included.
C16_Step ==
  LET T == IF dataset_tag # 0 THEN dataset_tag ELSE dataset_tag' IN
  T # 0 =>
     /\ \A r \in files' : r.path \in log'.upserted => r.dataset_tag = T
     /\ \A j \in 1..Len(results') :
           results'[j].file_path \in log'.replaced => results'[j].dataset_tag = T
     /\ \A p \in Paths :
           p \notin log'.upserted =>
              /\ FileRow(files', p) = FileRow(files, p)
              /\ RowsOf(results', p) = RowsOf(results, p)
     /\ log'.replaced \subseteq log'.upserted
     /\ {k.path : k \in log'.processed} \subseteq log'.upserted

\* C16: every row a sync invocation with tag T writes carries T, in every
\* scope; rows of documents it skips as unchanged keep their tag.
C16_OneTagPerInvocation == [][C16_Step]_vars

\* C16 witness: an invocation with tag 2 has returned; it stored rows for one
\* document and skipped another one, which an invocation with tag 1 had written
C16_Witness ==
  /\ Returned /\ ev.op \in {"category_returned", "returned"}
  /\ \E r1, r2 \in files :
        /\ r1.path \notin log.upserted /\ r1.dataset_tag = 1
        /\ r2.path \in log.replaced /\ r2.dataset_tag = 2
        /\ RowsOf(results, r2.path) # << >>
        /\ \A j \in 1..Len(results) :
              results[j].file_path = r2.path => results[j].dataset_tag = 2

\* the strings of 1..n digits
DigitStrings(n) == {x \in StringsOver(TimeDigits, n) : Len(x) >= 1}

\* a fraction of one digit counts tenths, of two digits hundredths
Hundredths(f) ==
  IF Len(f) = 1 THEN 10 * DigitVal(f[1]) ELSE 10 * DigitVal(f[1]) + DigitVal(f[2])

\* the supported shapes, each string with the time it stands for in hundredths
\* of a second: M:SS.cc and M:SS,cc, M:SS, SS.cc and SS,cc
TimeShapes ==
  {e \in
     {[s |-> m \o <<":">> \o ss \o <<sep>> \o f,
       cs |-> 100 * (60 * IntOf(m) + IntOf(ss)) + Hundredths(f)] :
          m \in DigitStrings(MaxTimeLen - 5),
          ss \in {x \in DigitStrings(2) : Len(x) = 2},
          sep \in {".", ","}, f \in DigitStrings(2)}
     \cup
     {[s |-> m \o <<":">> \o ss, cs |-> 100 * (60 * IntOf(m) + IntOf(ss))] :
          m \in DigitStrings(MaxTimeLen - 3),
          ss \in {x \in DigitStrings(2) : Len(x) = 2}}
     \cup
     {[s |-> ss \o <<sep>> \o f, cs |-> 100 * IntOf(ss) + Hundredths(f)] :
          ss \in DigitStrings(2), sep \in {".", ","}, f \in DigitStrings(2)} :
   Len(e.s) <= MaxTimeLen}

TimeShapeStrings == {e.s : e \in TimeShapes}

\* C19: for a string of one of the shapes M:SS.cc, M:SS,cc, M:SS, SS.cc, SS,cc
\* time_to_seconds returns 60*M + SS + fraction (here in hundredths), a
\* one-digit fraction counting tenths; for every other string it returns the
\* failure value.
C19_TimeToSeconds ==
  val.done =>
     IF arg \in TimeShapeStrings
       THEN \A e \in TimeShapes : e.s = arg => val.r = [ok |-> TRUE, cs |-> e.cs]
       ELSE val.r = NoTime

\* C19 witness: '5:05.5' gives 305.50, the single fraction digit as tenths
C19_Witness ==
  /\ val.done
  /\ arg = <<"5", ":", "0", "5", ".", "5">>
  /\ val.r = [ok |-> TRUE, cs |-> 30550]

\* ---------------------------------------------------------------- C20
Separators == {" ", ","}

SameLetter(c, d) == lower(c) = lower(d)
SameBase(c, d) == strip_accents(<<c>>) = strip_accents(<<d>>)

RECURSIVE CaseVariants(_)
\* the names that differ from x in letter case only
CaseVariants(x) ==
  IF x = << >> THEN {<< >>}
  ELSE {<<d>> \o t : d \in {e \in NameChars : SameLetter(x[1], e)},
                     t \in CaseVariants(Tail(x))}

RECURSIVE DiacriticVariants(_)
\* the names that differ from x in diacritics only
DiacriticVariants(x) ==
  IF x = << >> THEN {<< >>}
  ELSE {<<d>> \o t : d \in {e \in NameChars : SameBase(x[1], e)},
                     t \in DiacriticVariants(Tail(x))}

RemoveAt(x, j) == SubSeq(x, 1, j - 1) \o SubSeq(x, j + 1, Len(x))

\* the names got from x by changing the kind of one separator or by
\* shortening a run of separators by one
SeparatorVariants(x) ==
  {[x EXCEPT ![j] = d] : j \in {k \in 1..Len(x) : x[k] \in Separators},
                         d \in Separators}
  \cup {RemoveAt(x, j) : j \in {k \in 2..Len(x) : x[k] \in Separators
                                                  /\ x[k - 1] \in Separators}}

NormKeyIdempotent == val.done => norm_key(val.r) = val.r

NormKeyAbsent == val.done /\ arg = None => val.r = << >>

NormKeyAlphabet ==
  val.done =>
    /\ Range(val.r) \subseteq AlphaNum \cup {" "}
    /\ \A j \in 1..Len(val.r) :
         val.r[j] = " " => j \notin {1, Len(val.r)} /\ val.r[j + 1] # " "

NormKeyIgnoresDiacritics ==
  val.done /\ arg # None =>
    \A y \in DiacriticVariants(arg) : norm_key(y) = val.r

NormKeyIgnoresSeparators ==
  val.done /\ arg # None =>
    \A y \in SeparatorVariants(arg) : norm_key(y) = val.r

NormKeyIgnoresCase ==
  val.done /\ arg # None =>
    \A y \in CaseVariants(arg) : norm_key(y) = val.r

\* C20: norm_key is idempotent and gives the empty key for an absent name;
\* its result holds only A-Z, 0-9 and single blanks, none of them leading or
\* trailing; names that differ only in letter case, in diacritics or in the
\* separators between their words get the same key.
C20_NormKey ==
  /\ NormKeyIdempotent
  /\ NormKeyAbsent
  /\ NormKeyAlphabet
  /\ NormKeyIgnoresDiacritics
  /\ NormKeyIgnoresSeparators
  /\ NormKeyIgnoresCase

\* ---------------------------------------------------------------- C17
\* the finish time a token stands for, in hundredths of a second
FinishTime(tok) == CASE tok = "1:02.45" -> 6245 [] tok = "32,40" -> 3240

\* a document of one line made of a rank, a non-empty text holding one
\* swimmer at most, and a finish time out of the set times
IsResultLineCall(times) ==
  /\ val.done
  /\ Len(arg.pages) = 1 /\ Len(arg.pages[1]) = 1
  /\ LET ln == arg.pages[1][1] IN
       /\ Len(ln) >= 3
       /\ ln[1] \in RankToks
       /\ Last(ln) \in times
       /\ \A j \in 2..(Len(ln) - 1) : ln[j] \in PrefixToks
       /\ Cardinality(NameStarts(ln)) <= 1

\* the row the claim describes for the line ln
ExpectedRow(ln) ==
  LET text == SubSeq(ln, 2, Len(ln) - 1)
      years == {j \in 1..Len(text) : text[j] \in Int2Toks}
      year == CHOOSE j \in years : \A k \in years : k <= j
      numeric == {j \in 1..Len(text) : text[j] \in Int2Toks \cup Int3Toks}
  IN [time_seconds |-> FinishTime(Last(ln)),
      swimmer |-> IF years # {} /\ year > 1 THEN SubSeq(text, 1, year - 1)
                  ELSE IF numeric = {} THEN text
                  ELSE SubSeq(text, 1, SetMin(numeric) - 1),
      age |-> IF years # {} /\ year > 1 THEN IntOf(CharsOf(text[year])) ELSE NoYear]

GarciaLine == <<"3.", "GARCIA,", "Ana", "08", "1:02.45">>
GarciaKey == <<"G", "A", "R", "C", "I", "A", " ", "A", "N", "A">>

ResultLineGivesRow(times) ==
  IsResultLineCall(times) =>
    LET ln == arg.pages[1][1]
        want == ExpectedRow(ln)
    IN /\ Len(val.r) = 1
       /\ val.r[1].swimmer = want.swimmer
       /\ val.r[1].age = want.age
       /\ val.r[1].time_seconds = want.time_seconds
       /\ ln = GarciaLine =>
            /\ norm_key(JoinChars(val.r[1].swimmer)) = GarciaKey
            /\ val.r[1].age = 8 /\ val.r[1].time_seconds = 6245

\* the statement of C17 for the lines whose finish time is written M:SS.cc
ClockLineGivesRow == ResultLineGivesRow(ClockToks)

\* C17: a line made of a rank, a name, a one- or two-digit birth-year token
\* and a finish time gives exactly one row: its birth year is the rightmost
\* such number of the text before the time, the name is cut just before it,
\* the time is the parsed finish time ('3. GARCIA, Ana 08 1:02.45' gives key
\* 'GARCIA ANA', 8, 62.45); without such a number, or with it at the very
\* start, the row has the leading non-numeric tokens as name and no birth year.
C17_ResultLineGivesRow == ResultLineGivesRow(FinishToks)

\* ---------------------------------------------------------------- C18
\* a line that is no event header and lacks the rank, has no time at its end
\* (none that TIME_AT_END finds once the noise is stripped: a rank before a
\* number and the digits of a delta are read as a time, see C27 and C24),
\* starts with a marker or has a time that cannot be parsed
Malformed(ln) ==
  /\ ~(Len(ln) >= 4 /\ ln[1] = "PRUEBA")
  /\ \/ ln[1] \notin RankToks
     \/ ~TIME_AT_END(StripTrailing(ln)).found
     \/ ln[1] = "DSQ"
     \/ \E j \in 1..Len(ln) : ln[j] \in LongToks

\* the document without line i of page p
WithoutLine(pages, p, i) == [pages EXCEPT ![p] = RemoveAt(@, i)]

MalformedLines ==
  {pi \in {<<p, i>> : p \in 1..Len(arg.pages), i \in 1..MaxLines + 1} :
     /\ pi[2] <= Len(arg.pages[pi[1]])
     /\ Malformed(arg.pages[pi[1]][pi[2]])}

\* the rows without their meet name, place and date
WithoutMeet(rows) ==
  [j \in 1..Len(rows) |->
     [rows[j] EXCEPT !.meet_name = None, !.meet_place = None, !.meet_date = None]]

FirstDigitRun(s) ==
  LET runs == {p \in 1..Len(s) : DigitsAt(s, p) \in 2..4
                                 /\ (p = 1 \/ s[p - 1] \notin Digits)}
  IN IF runs = {} THEN NoDistance
     ELSE IntOf(SubSeq(s, SetMin(runs), SetMin(runs) + DigitsAt(s, SetMin(runs)) - 1))

Text100mLibre == <<"1", "0", "0", " ", "m", " ", "L", "i", "b", "r", "e">>

\* a stroke match gives '<distance>m <Stroke>', the distance and the stroke
EventNameOfMatch ==
  val.done /\ val.r.stroke # NoStroke =>
    /\ val.r.dist \in 10..9999
    /\ val.r.name = DecimalChars(val.r.dist) \o <<"m", " ">> \o Display(val.r.stroke)
    /\ arg = Text100mLibre =>
         val.r = [name |-> <<"1", "0", "0", "m", " ", "L", "i", "b", "r", "e">>,
                  dist |-> 100, stroke |-> "LIBRE"]

\* without a stroke match the text is returned as it is, with no stroke
EventNameOfNoMatch ==
  val.done /\ val.r.stroke = NoStroke => val.r.name = SubRuns({" "}, strip(arg))

\* without a stroke match the distance is the first run of 2-4 digits
EventDistanceOfNoMatch ==
  val.done /\ val.r.stroke = NoStroke => val.r.dist = FirstDigitRun(arg)

\* C21: normalize_event_name returns ('<distance>m <Stroke>', distance,
\* stroke) when the text holds a number of 2-4 digits followed, optionally
\* after the unit marker m, by a stroke variant in any letter case; without a
\* stroke match it returns the text, no stroke, and as distance the first run
\* of 2-4 digits of the text (none if there is none): '4x100 ESTILOS' gets 100.
C21_NormalizeEventName ==
  /\ EventNameOfMatch
  /\ EventNameOfNoMatch
  /\ EventDistanceOfNoMatch

\* ---------------------------------------------------------------- C22
\* The tables files and results on a connection from init_db, which turns
\* foreign keys on (line 26): results.file_path references files.path with
\* ON DELETE CASCADE (line 62).

\* a deletion of the files row that leaves the result rows where they are
delete_file_no_cascade(conn_files, conn_results, path) ==
  [files |-> {r \in conn_files : r.path # path},
   results |-> conn_results]

\* DELETE FROM files WHERE path = ?: the result rows of the path go with it
delete_file(conn_files, conn_results, path) ==
  [files |-> {r \in conn_files : r.path # path},
   results |-> delete_results(conn_results, path)]

\* the entries and rows the functions of db.py are called with
DbEntries == {[path |-> p, etag |-> t, size |-> 1, last_modified |-> 1] :
                p \in Paths, t \in {1, 2}}
DbRows == {<< >>,
           <<[row |-> 1, category |-> 1, dataset_tag |-> 1]>>,
           <<[row |-> 1, category |-> 1, dataset_tag |-> 1],
             [row |-> 2, category |-> 1, dataset_tag |-> 1]>>}

HasFile(conn_files, path) == \E r \in conn_files : r.path = path

\* upsert_file(conn, e, is_results, 0, tag): no commit
DbUpsertFile(e, is_results) ==
  /\ files' = upsert_file(files, e, is_results, 0, 1)
  /\ ev' = Event("upsert_file", e, 0)
  /\ UNCHANGED <<arg, val, included, walk, remote, results, cfiles, cresults, multi, run,
                 dataset_tag, ret, log, last, prevAtCall, nChanges, nCalls>>

\* replace_results_for_file(conn, path, rows): without a files row of the
\* path the first INSERT raises IntegrityError, after the DELETE and before
\* the commit
DbReplaceResults(path, rows) ==
  /\ IF rows = << >> \/ HasFile(files, path)
       THEN /\ results' = replace_results_for_file(results, path, rows, Len(rows))
            /\ cfiles' = files
            /\ cresults' = results'
            /\ ev' = Event("replace_results", [NoEntry EXCEPT !.path = path], 0)
       ELSE /\ results' = delete_results(results, path)
            /\ UNCHANGED <<cfiles, cresults>>
            /\ ev' = Event("integrity_error", [NoEntry EXCEPT !.path = path], 0)
  /\ UNCHANGED <<arg, val, included, walk, remote, files, multi, run, dataset_tag, ret, log,
                 last, prevAtCall, nChanges, nCalls>>

\* DELETE FROM files WHERE path = ? on the connection; the next
\* replace_results_for_file commits it
DbDeleteFile(path) ==
  /\ HasFile(files, path)
  /\ files' = delete_file(files, results, path).files
  /\ results' = delete_file(files, results, path).results
  /\ ev' = Event("delete_file", [NoEntry EXCEPT !.path = path], 0)
  /\ UNCHANGED <<arg, val, included, walk, remote, cfiles, cresults, multi, run, dataset_tag,
                 ret, log, last, prevAtCall, nChanges, nCalls>>

NextDb ==
  \/ \E e \in DbEntries : DbUpsertFile(e, 1)
  \/ \E path \in Paths, rows \in DbRows : DbReplaceResults(path, rows)
  \/ \E path \in Paths : DbDeleteFile(path)

SpecDb == Init /\ [][NextDb]_vars

\* every result row belongs to a files row, in what the connection sees and
\* in what is committed
ResultsHaveFiles ==
  /\ \A j \in 1..Len(results) : HasFile(files, results[j].file_path)
  /\ \A j \in 1..Len(cresults) : HasFile(cfiles, cresults[j].file_path)

\* the deletion of the files row of a path removes the result rows of the
\* path and no other result row
DeleteCascades ==
  ev'.op = "delete_file" =>
     /\ ~HasFile(files', ev'.e.path)
     /\ RowsOf(results', ev'.e.path) = << >>
     /\ \A p \in Paths \ {ev'.e.path} :
           /\ RowsOf(results', p) = RowsOf(results, p)
           /\ FileRow(files', p) = FileRow(files, p)
     /\ Len(results') = Len(results) - ev'.had

\* C22: on a connection from init_db, in every state reached by upsert_file,
\* replace_results_for_file and deletions of files rows, every result row's
\* file_path is the path of a files row; deleting a files row deletes the
\* result rows of that path and no result row of another path.
C22_DocumentOwnsResults == []ResultsHaveFiles /\ [][DeleteCascades]_vars

\* C22 witness: the files row of a path with result rows has just been
\* deleted, the other path keeps its rows
C22_Witness ==
  /\ ev.op = "delete_file" /\ ev.had = 2
  /\ RowsOf(results, ev.e.path) = << >>
  /\ \E p \in Paths : p # ev.e.path /\ Len(RowsOf(results, p)) = 1

\* ---------------------------------------------------------------- C23
\* The table included_categories (db.py:79-84, category_path PRIMARY KEY) and
\* the functions of db.py:188-222 on it; paths are sequences of characters.

\* p.strip("/")
RECURSIVE strip_slashes(_)
strip_slashes(p) ==
  IF p = << >> THEN p
  ELSE IF p[1] = "/" THEN strip_slashes(Tail(p))
  ELSE IF p[Len(p)] = "/" THEN strip_slashes(SubSeq(p, 1, Len(p) - 1))
  ELSE p

\* [p.strip("/") for p in (category_paths or []) if p and str(p).strip()],
\* as the set of its elements
CleanPaths(category_paths) ==
  {strip_slashes(category_paths[j]) :
     j \in {k \in 1..Len(category_paths) :
              category_paths[k] # << >> /\ strip(category_paths[k]) # << >>}}

\* the code point of a character of a path
CodePoint(ch) ==
  CASE ch = " " -> 32 [] ch = "/" -> 47 [] ch = "a" -> 97 [] ch = "b" -> 98

\* ORDER BY category_path: the order of the BINARY collation
RECURSIVE PathBefore(_, _)
PathBefore(p, q) ==
  IF p = << >> THEN q # << >>
  ELSE IF q = << >> THEN FALSE
  ELSE IF p[1] # q[1] THEN CodePoint(p[1]) < CodePoint(q[1])
  ELSE PathBefore(Tail(p), Tail(q))

RECURSIVE OrderBy(_)
OrderBy(ps) ==
  IF ps = {} THEN << >>
  ELSE LET first == CHOOSE p \in ps : \A q \in ps \ {p} : PathBefore(p, q)
       IN <<first>> \o OrderBy(ps \ {first})

list_included_categories(conn_included, enabled_only) ==
  OrderBy({r.category_path :
             r \in {x \in conn_included : ~enabled_only \/ x.enabled = 1}})

\* an insertion that leaves a row that is there as it is
add_included_categories_keep_row(conn_included, category_paths) ==
  conn_included \cup
  {[category_path |-> p, enabled |-> 1] :
     p \in {q \in CleanPaths(category_paths) :
              \A r \in conn_included : r.category_path # q}}

\* INSERT ... VALUES (?, 1) ON CONFLICT(category_path) DO UPDATE SET enabled=1
add_included_categories(conn_included, category_paths) ==
  {r \in conn_included : r.category_path \notin CleanPaths(category_paths)} \cup
  {[category_path |-> p, enabled |-> 1] : p \in CleanPaths(category_paths)}

\* DELETE FROM included_categories WHERE category_path = ?
remove_included_categories(conn_included, category_paths) ==
  {r \in conn_included : r.category_path \notin CleanPaths(category_paths)}

\* UPDATE included_categories SET enabled=? WHERE category_path=?
set_category_enabled(conn_included, category_path, enabled) ==
  {IF r.category_path = strip_slashes(category_path)
     THEN [r EXCEPT !.enabled = IF enabled THEN 1 ELSE 0]
     ELSE r : r \in conn_included}

\* the paths the functions are called with
a_ == <<"a">>
RawPaths == {a_, <<"/", "a", "/">>, <<"b", "/">>, <<"/">>, <<" ">>, << >>}
MaxPathList == 1     \* paths in one call of add or remove
PathLists == UNION {[1..n -> RawPaths] : n \in 0..MaxPathList}

AddIncludedCategories(category_paths) ==
  /\ included' = add_included_categories(included, category_paths)
  /\ ev' = [op |-> "add_included_categories", category_paths |-> category_paths]
  /\ UNCHANGED <<arg, val, walk, remote, files, results, cfiles, cresults, multi,
                 run, dataset_tag, ret, log, last, prevAtCall, nChanges, nCalls>>

RemoveIncludedCategories(category_paths) ==
  /\ included' = remove_included_categories(included, category_paths)
  /\ ev' = [op |-> "remove_included_categories", category_paths |-> category_paths]
  /\ UNCHANGED <<arg, val, walk, remote, files, results, cfiles, cresults, multi,
                 run, dataset_tag, ret, log, last, prevAtCall, nChanges, nCalls>>

SetCategoryEnabled(category_path, enabled) ==
  /\ included' = set_category_enabled(included, category_path, enabled)
  /\ ev' = [op |-> "set_category_enabled", category_path |-> category_path,
            enabled |-> enabled]
  /\ UNCHANGED <<arg, val, walk, remote, files, results, cfiles, cresults, multi,
                 run, dataset_tag, ret, log, last, prevAtCall, nChanges, nCalls>>

\* sync_dashboard.py, the SYNC button (lines 106-142): the call of
\* sync_multiple_categories, unless the tag or the enabled list is empty
DashboardSync(tag) ==
  /\ LET included_enabled == list_included_categories(included, TRUE) IN
     IF tag = 0 \/ included_enabled = << >>
       THEN /\ ev' = [op |-> "sync_stopped"]
            /\ arg' = NoArg
       ELSE /\ ev' = [op |-> "sync"]
            /\ arg' = [fn |-> "sync_multiple_categories",
                       category_paths |-> included_enabled, dataset_tag |-> tag]
  /\ UNCHANGED <<val, included, walk, remote, files, results, cfiles, cresults,
                 multi, run, dataset_tag, ret, log, last, prevAtCall, nChanges,
                 nCalls>>

NextIncluded ==
  \/ \E category_paths \in PathLists : AddIncludedCategories(category_paths)
  \/ \E category_paths \in PathLists : RemoveIncludedCategories(category_paths)
  \/ \E category_path \in RawPaths, enabled \in BOOLEAN :
        SetCategoryEnabled(category_path, enabled)
  \* the tag is empty or not
  \/ \E tag \in {0, 1} : DashboardSync(tag)

SpecIncluded == Init /\ [][NextIncluded]_vars

\* the enabled list, and the list of all rows, as sets
Enabled(t) == Range(list_included_categories(t, TRUE))
Present(t) == Range(list_included_categories(t, FALSE))

\* the paths a list of paths names: without the slashes around them, blank
\* and empty ones left out
Named(category_paths) ==
  {strip_slashes(category_paths[j]) :
     j \in {k \in 1..Len(category_paths) :
              \E i \in 1..Len(category_paths[k]) : category_paths[k][i] # " "}}

\* the enabled list is in ascending order, which leaves no room for duplicates
EnabledListSorted ==
  LET l == list_included_categories(included, TRUE) IN
  /\ \A j \in 1..(Len(l) - 1) : PathBefore(l[j], l[j + 1])
  /\ Enabled(included) \subseteq Present(included)

\* what each call does to the enabled list
EnabledListStep ==
  /\ ev'.op = "add_included_categories" =>
        Enabled(included') = Enabled(included) \cup Named(ev'.category_paths)
  /\ ev'.op = "remove_included_categories" =>
        Enabled(included') = Enabled(included) \ Named(ev'.category_paths)
  /\ ev'.op = "set_category_enabled" =>
        LET p == strip_slashes(ev'.category_path) IN
        /\ Present(included') = Present(included)
        /\ Enabled(included') =
             IF ~ev'.enabled THEN Enabled(included) \ {p}
             ELSE IF p \in Present(included) THEN Enabled(included) \cup {p}
             ELSE Enabled(included)
  /\ ev'.op = "sync" =>
        /\ arg'.fn = "sync_multiple_categories"
        /\ Range(arg'.category_paths) = Enabled(included)
        /\ \A j \in 1..(Len(arg'.category_paths) - 1) :
              PathBefore(arg'.category_paths[j], arg'.category_paths[j + 1])

\* C23: after any sequence of add_included_categories,
\* remove_included_categories and set_category_enabled the enabled list holds,
\* in ascending order and without duplicates, the paths that were added and
\* are neither removed nor disabled; adding a disabled path enables it,
\* set_category_enabled on an absent path adds nothing, and the dashboard hands
\* exactly the enabled list to sync_multiple_categories.
C23_EnabledList == []EnabledListSorted /\ [][EnabledListStep]_vars

\* C23 witness: three paths are present, one of them disabled; the dashboard
\* has handed the enabled list of two paths to the sync
C23_Witness ==
  /\ ev.op = "sync"
  /\ arg.category_paths = << << >>, a_ >>
  /\ Present(included) = {<< >>, a_, <<"b">>}

\* ---------------------------------------------------------------- C24
\* a document of one line: rank, name, birth year, a finish time out of the
\* set times, and noise fields out of the set of sequences noise
IsNoiseLineCall(times, noise) ==
  /\ val.done
  /\ Len(arg.pages) = 1 /\ Len(arg.pages[1]) = 1
  /\ LET ln == arg.pages[1][1] IN
       /\ Len(ln) >= 5
       /\ SubSeq(ln, 1, 4) = <<"3.", "GARCIA,", "Ana", "08">>
       /\ ln[5] \in times
       /\ SubSeq(ln, 6, Len(ln)) \in noise

\* the line gives one row, cut after the finish time and with its value
FinishTimeKept(times, noise) ==
  IsNoiseLineCall(times, noise) =>
    /\ Len(val.r) = 1
    /\ val.r[1].raw_line = SubSeq(arg.pages[1][1], 1, 5)
    /\ val.r[1].time_seconds = FinishTime(arg.pages[1][1][5])

\* the statement of C24 for a finish time M:SS.cc followed by the columns in
\* the order dash, decimal points, points, delta
ColumnsInOrderStripped == FinishTimeKept(ClockToks, TrailingColumns)

\* the statement of C24 for a finish time M:SS.cc
ClockTimeKept == FinishTimeKept(ClockToks, StringsOver(NoiseToks, MaxNoise))

\* C24: for a line of rank, name, birth year and finish time followed by any
\* combination of noise fields (delta, points, decimal points, dash) the
\* finish time is at the end of the line after the stripping, and the row's
\* time is that finish time.
C24_NoiseStrippedTimeKept ==
  FinishTimeKept(FinishToks, StringsOver(NoiseToks, MaxNoise))

\* ---------------------------------------------------------------- C25
\* the 'LASTNAME, Firstname'-shaped tokens of a line
NameShaped(ln) ==
  {j \in 1..(Len(ln) - 1) : ln[j] \in CommaWords /\ ln[j + 1] \in NameWords}

\* a document of one line
IsOneLineCall == val.done /\ Len(arg.pages) = 1 /\ Len(arg.pages[1]) = 1

\* no last name of the line is followed by an upper-case word
PlainNames(ln) ==
  \A j \in 1..(Len(ln) - 1) :
     ln[j] \in CommaWords => ln[j + 1] \notin CommaWords \cup UpperWords

\* a line with k >= 2 such tokens is cut into k sub-lines, a line with fewer
\* is left as it is
SplitsAtNames ==
  IsOneLineCall /\ PlainNames(arg.pages[1][1]) =>
    LET ln == arg.pages[1][1]
        k == Cardinality(NameShaped(ln))
    IN IF k >= 2 THEN Len(split_multi_swimmer_lines(ln)) = k
       ELSE split_multi_swimmer_lines(ln) = <<ln>>

\* a line of two entries gives the rows of the two entries
EntriesGiveRows ==
  IsOneLineCall /\ arg.pages[1][1] \in MultiLines =>
    LET ln == arg.pages[1][1] IN
    /\ Len(val.r) = 2
    /\ \A j \in 1..2 :
         /\ val.r[j].swimmer = SubSeq(ln, 5 * j - 3, 5 * j - 2)
         /\ val.r[j].age = IntOf(CharsOf(ln[5 * j - 1]))
         /\ val.r[j].time_seconds = FinishTime(ln[5 * j])

\* C25: a line holding k >= 2 'LASTNAME, Firstname'-shaped tokens is split
\* into exactly k sub-lines and each sub-line is processed as a line of its
\* own, so that every swimmer entry of the line (rank, name, birth year, time)
\* gives its own row; a line with fewer such tokens is processed as one line.
C25_SplitGivesRowPerSwimmer == SplitsAtNames /\ EntriesGiveRows

\* ---------------------------------------------------------------- C26
RECURSIVE SubLinesOf(_)
\* the sub-lines of the lines of a page, in line order
SubLinesOf(lines) ==
  IF lines = << >> THEN << >>
  ELSE split_multi_swimmer_lines(lines[1]) \o SubLinesOf(Tail(lines))

RECURSIVE SubLinesOfPages(_)
\* the sub-lines of a document, in page-then-line order
SubLinesOfPages(pages) ==
  IF pages = << >> THEN << >>
  ELSE SubLinesOf(pages[1]) \o SubLinesOfPages(Tail(pages))

\* the positions, among the sub-lines, of the event headers and of the lines
\* that give a row
HeadersOf(sublines) == {i \in 1..Len(sublines) : EVENT_LINE(sublines[i])}
RowLinesOf(sublines) ==
  {i \in 1..Len(sublines) :
     /\ ~EVENT_LINE(sublines[i])
     /\ RowsOfLine(InitialState, sublines[i], 0) # << >>}

\* the j-th smallest element of a set of numbers
Nth(S, j) == CHOOSE i \in S : Cardinality({k \in S : k <= i}) = j

\* what a header line sets
HeaderValues(h) ==
  LET st == StepLine(InitialState, h, 0) IN
  [event_num |-> st.current_event_num, sex |-> st.current_sex,
   event |-> st.current_event, event_category |-> st.current_cat]
NoHeaderValues ==
  [event_num |-> None, sex |-> None, event |-> <<"UNKNOWN">>,
   event_category |-> None]

\* C26: an event header gives no row and sets event number, sex, event name
\* and category together; every row after it and before the next header,
\* also on a later page, carries those values; the rows before the first
\* header carry event 'UNKNOWN' and no sex; the rows come in page-then-line
\* order of their lines.
C26_RowsCarryCurrentEvent ==
  val.done =>
    LET sublines == SubLinesOfPages(arg.pages)
        from == RowLinesOf(sublines)
    IN /\ Len(val.r) = Cardinality(from)
       /\ \A j \in 1..Len(val.r) :
            LET i == Nth(from, j)
                before == {h \in HeadersOf(sublines) : h < i}
                want == IF before = {} THEN NoHeaderValues
                        ELSE HeaderValues(sublines[CHOOSE h \in before :
                                                     \A g \in before : g <= h])
            IN /\ val.r[j].raw_line = StripTrailing(sublines[i])
               /\ val.r[j].event_num = want.event_num
               /\ val.r[j].sex = want.sex
               /\ val.r[j].event = want.event
               /\ val.r[j].event_category = want.event_category

\* C26 witness: a row before the first header, a header with a category, and
\* a row on the next page that carries the values of the header
C26_Witness ==
  /\ val.done
  /\ arg.pages = << <<GarciaLine, <<"PRUEBA", "05", "FEM.", "Ana", "123", "LIBRE">> >>,
                    <<GarciaLine>> >>
  /\ Len(val.r) = 2
  /\ val.r[1].event = <<"UNKNOWN">> /\ val.r[1].sex = None
  /\ val.r[2].event_num = <<"05">> /\ val.r[2].sex = <<"FEM">>
  /\ val.r[2].event = <<"123m", "Libre">> /\ val.r[2].event_category = <<"ANA">>

\* ---------------------------------------------------------------- C27
\* the row comes from the sub-line sl: sl starts with a rank and not with a
\* marker, ends in a clock-shaped token once its noise is stripped, and the
\* row has the value of that token as time and the stripped line as raw_line
RowComesFrom(row, sl) ==
  /\ Len(sl) >= 2
  /\ sl[1] \in RankToks
  /\ sl[1] # "DSQ"
  /\ Last(StripTrailing(sl)) \in ClockToks \cup DecimalToks
  /\ row.time_seconds = FinishTime(Last(StripTrailing(sl)))
  /\ row.raw_line = StripTrailing(sl)

\* C27: every row comes from a (sub-)line that begins with a rank prefix and
\* not with a DSQ/NP/BAJA marker and, with its noise stripped, ends in a
\* clock-shaped token; the row's time is the value of that token and its
\* raw_line is the stripped line.
C27_RowsComeFromResultLines ==
  val.done =>
    \A j \in 1..Len(val.r) :
       \E i \in 1..Len(SubLinesOfPages(arg.pages)) :
          RowComesFrom(val.r[j], SubLinesOfPages(arg.pages)[i])

\* the statement of C27 without the time: rank prefix, no marker, raw_line
RowsComeFromRankedLines ==
  val.done =>
    \A j \in 1..Len(val.r) :
       \E i \in 1..Len(SubLinesOfPages(arg.pages)) :
          LET sl == SubLinesOfPages(arg.pages)[i] IN
          /\ Len(sl) >= 2 /\ sl[1] \in RankToks /\ sl[1] # "DSQ"
          /\ val.r[j].raw_line = StripTrailing(sl)
          /\ val.r[j].time_seconds >= 0

\* ---------------------------------------------------------------- C28
\* the meet name, place and date of a row
MeetOf(row) == <<row.meet_name, row.meet_place, row.meet_date>>

\* meet name, place and date are assigned once: a row that has one of them
\* shares it with every later row
MeetAssignedOnce ==
  val.done =>
    \A j \in 1..Len(val.r) : \A k \in j..Len(val.r) : \A f \in 1..3 :
       MeetOf(val.r[j])[f] # None => MeetOf(val.r[k])[f] = MeetOf(val.r[j])[f]

\* every row of a document carries the same meet name, place and date
SameMeetInAllRows ==
  val.done => \A j, k \in 1..Len(val.r) : MeetOf(val.r[j]) = MeetOf(val.r[k])

\* what the first lines of the first page give
FirstPageMeet ==
  LET st == IF arg.pages = << >> THEN InitialState
            ELSE ScanMeet(InitialState, SelectSeq(arg.pages[1], LAMBDA ln : ln # << >>))
  IN <<st.meet_name, st.meet_place, st.meet_date>>

\* C28: meet name, place and date are assigned at most once per document and
\* only from the first lines of the first page: every row of a document
\* carries the same meet name, place and date, whatever its later pages hold.
C28_MeetFromFirstPage ==
  /\ MeetAssignedOnce
  /\ SameMeetInAllRows
  /\ val.done => \A j \in 1..Len(val.r) : MeetOf(val.r[j]) = FirstPageMeet

\* ------------------------------------------------------------------- C29
\* the calls of progress_cb of the run of sync_category in progress, or of the
\* last one while the share is as that run found it
RunCalls == log.calls

\* the share has not changed since the run of RunCalls listed it
ShareAsListed ==
  \/ run.active
  \/ multi.active
  \/ ev.op \in {"category_returned", "returned", "download_failed", "parse_raised",
                "insert_failed", "callback_raised"}

\* the listing the run of RunCalls got for the path of its "scan" call
CallsListing == walk_pdfs(RunCalls[1].path)

\* the stages after which a document is finished, or none is begun
BetweenDocuments == {"scan", "skip_unchanged", "done"}

\* the position in the listing of the document the k-th call is about
CallDocument(k) ==
  IF RunCalls[k].stage \in BetweenDocuments THEN RunCalls[k].done
  ELSE RunCalls[k].done + 1

\* the document of the k-th call is classified as results
CallIsResults(k) == is_results_pdf(download_file(RunCalls[k].path)).is_res

\* the k-th call (k > 1) may follow the one before it
CallFollows(k) ==
  LET c == RunCalls[k]
      b == RunCalls[k - 1] IN
  /\ c.total = b.total
  /\ c.done >= b.done
  /\ c.done <= c.total
  /\ CallDocument(k) \in 1..Len(CallsListing)
  /\ c.path = CallsListing[CallDocument(k)].path
  /\ CASE c.stage = "skip_unchanged" ->
            b.stage \in BetweenDocuments /\ c.done = b.done + 1
       [] c.stage = "download" ->
            b.stage \in BetweenDocuments /\ c.done = b.done
       [] c.stage = "detect" ->
            b.stage = "download" /\ c.done = b.done /\ c.path = b.path
       [] c.stage = "parse_store" ->
            b.stage = "detect" /\ c.done = b.done /\ c.path = b.path
            /\ CallIsResults(k)
       [] c.stage = "done" ->
            /\ b.stage = (IF CallIsResults(k) THEN "parse_store" ELSE "detect")
            /\ c.done = b.done + 1
            /\ c.path = b.path
       [] OTHER -> FALSE

\* the run of RunCalls has handled every listed document
RunComplete ==
  \/ run.active /\ run.i > Len(run.pdfs)
  \/ ev.op = "category_returned"

\* C29: within one run of sync_category the calls of progress_cb are one "scan"
\* call with done = 0, then per listed document in listing order either one
\* "skip_unchanged" call or "download", "detect", "parse_store" (only for a
\* document classified as results) and "done" in that order; done never
\* decreases, never exceeds total, rises by one per finished document and
\* equals total in the last call of a run that handled every document. A run
\* that an exception ends has made a prefix of these calls.
C29_CallbackSequence ==
  (ShareAsListed /\ RunCalls # << >>) =>
    /\ RunCalls[1] = Call(0, Len(CallsListing), RunCalls[1].path, "scan")
    /\ \A k \in 2..Len(RunCalls) : CallFollows(k)
    /\ RunComplete =>
         /\ RunCalls[Len(RunCalls)].stage \in BetweenDocuments
         /\ RunCalls[Len(RunCalls)].done = RunCalls[Len(RunCalls)].total

\* a run has returned after it skipped one document and parsed another
C29_Witness ==
  /\ ev.op = "category_returned"
  /\ \E j, k \in 2..Len(RunCalls) :
       /\ RunCalls[j].stage = "skip_unchanged"
       /\ RunCalls[k].stage = "parse_store"
  /\ RunCalls[Len(RunCalls)].done = 2

\* ====================================================================
\* webdav.py: walk_pdfs run on its own
\* ====================================================================
MaxDirs == 2         \* directories of the remote tree

Dirs == 1..MaxDirs

\* the path of directory d, as _href_to_rel gives it (no slash at either
\* end): the root of the share, a directory whose name ends in ".pdf", and
\* directories named b, bb, ...
DirPath(d) ==
  IF d = 1 THEN << >>
  ELSE IF d = 2 THEN <<"a", ".pdf">>
  ELSE [j \in 1..(d - 2) |-> "b"]

\* the directory a stripped path names
DirOf(path) == CHOOSE d \in Dirs : DirPath(d) = path

\* the path of the child called name of directory d
ChildPath(d, name) == IF d = 1 THEN name ELSE DirPath(d) \o <<"/">> \o name

\* str.lower(), on the pieces paths and content types are made of
lower_token(t) ==
  CASE t = ".PDF" -> ".pdf"
    [] t = "PDF" -> "pdf"
    [] t = "Application/" -> "application/"
    [] OTHER -> t

\* the entry propfind builds (lines 96-106) for directory d
DirEntry(d) ==
  [path |-> DirPath(d), is_dir |-> TRUE, content_type |-> None, size |-> NULL,
   last_modified |-> 1, etag |-> d]

\* the entry propfind builds for a document of directory d
FileEntry(d, name, content_type, size, etag) ==
  [path |-> ChildPath(d, name), is_dir |-> FALSE, content_type |-> content_type,
   size |-> size, last_modified |-> d, etag |-> etag]

\* what a directory can hold besides directories: nothing; a PDF known by
\* the letters of its name only and a text file; a PDF known by its content
\* type only and a file whose name ends in "pdf" without the dot
FileOptions(d) ==
  << << >>,
     <<FileEntry(d, <<"f", ".PDF">>, None, NULL, NULL),
       FileEntry(d, <<"g", ".txt">>, <<"text/", "plain">>, 2, 2)>>,
     <<FileEntry(d, <<"h">>, <<"Application/", "PDF">>, 3, 3),
       FileEntry(d, <<"k", "pdf">>, None, 4, 4)>> >>

\* the documents of directory d in the tree t
FilesOf(t, d) == FileOptions(d)[((d + t.shift) % 3) + 1]

\* the entries for the directories ds, in the order of their numbers
DirEntries(ds) ==
  LET s == SelectSeq([d \in Dirs |-> d], LAMBDA d : d \in ds) IN
  [j \in 1..Len(s) |-> DirEntry(s[j])]

\* propfind(safe_join(BASE, current), depth="1") on the tree t: the entries
\* the listing of the directory holds, which may name the directory itself and
\* any other directory
propfind(t, current) ==
  LET d == DirOf(strip_slashes(current)) IN
  DirEntries(t.links[d]) \o FilesOf(t, d)

\* line 124
IsSelf(e, current) == strip_slashes(e.path) = strip_slashes(current)

\* a test that looks for "pdf" in the letter case the server sent
IsPdf_case_sensitive(e) ==
  \/ e.content_type # None /\ "pdf" \in Range(e.content_type)
  \/ e.path # << >> /\ Last(e.path) = ".pdf"

\* line 130
IsPdf(e) ==
  \/ e.content_type # None
       /\ "pdf" \in {lower_token(e.content_type[j]) : j \in 1..Len(e.content_type)}
  \/ e.path # << >> /\ lower_token(Last(e.path)) = ".pdf"

\* lines 123-128: the paths one listing appends to the stack
Pushed(entries, current) ==
  LET ds == SelectSeq(entries, LAMBDA e : ~IsSelf(e, current) /\ e.is_dir) IN
  [j \in 1..Len(ds) |-> ds[j].path]

\* lines 123-131: the entries one listing yields
Yielded(entries, current) ==
  SelectSeq(entries, LAMBDA e : ~IsSelf(e, current) /\ ~e.is_dir /\ IsPdf(e))

\* the start paths a caller passes: a directory's path, bare or between slashes
StartPaths ==
  {DirPath(d) : d \in Dirs} \cup {<<"/">> \o DirPath(d) \o <<"/">> : d \in Dirs}

\* the remote trees: which directories each listing names (itself among
\* them or not) and which documents the directories hold
Trees == [links : [Dirs -> SUBSET Dirs], shift : 0..2]

WalkArgs == [fn : {"walk_pdfs"}, start_path : StartPaths, tree : Trees]

InitWalk == InitSync /\ arg \in WalkArgs /\ val = NoVal

\* lines 111-112: the generator is created and asked for its first entry
CallWalkPdfs ==
  /\ ~walk.active
  /\ walk' = [active |-> TRUE, done |-> FALSE,
              stack |-> <<strip_slashes(arg.start_path)>>, seen |-> {},
              listed |-> << >>, yielded |-> << >>]
  /\ UNCHANGED <<arg, val, included, remote, files, results, cfiles, cresults, multi,
                 run, dataset_tag, ret, ev, log, last, prevAtCall, nChanges, nCalls>>

\* lines 114-117: a path that was listed before is dropped
WalkSkipSeen ==
  /\ walk.active /\ ~walk.done
  /\ walk.stack # << >>
  /\ Last(walk.stack) \in walk.seen
  /\ walk' = [walk EXCEPT !.stack = Front(@)]
  /\ UNCHANGED <<arg, val, included, remote, files, results, cfiles, cresults, multi,
                 run, dataset_tag, ret, ev, log, last, prevAtCall, nChanges, nCalls>>

\* lines 114-131: a path is listed, its directories are pushed and its PDF
\* entries yielded
WalkList ==
  /\ walk.active /\ ~walk.done
  /\ walk.stack # << >>
  /\ Last(walk.stack) \notin walk.seen
  /\ LET current == Last(walk.stack)
         entries == propfind(arg.tree, current) IN
     walk' = [walk EXCEPT !.stack = Front(@) \o Pushed(entries, current),
                          !.seen = @ \cup {current},
                          !.listed = Append(@, current),
                          !.yielded = @ \o Yielded(entries, current)]
  /\ UNCHANGED <<arg, val, included, remote, files, results, cfiles, cresults, multi,
                 run, dataset_tag, ret, ev, log, last, prevAtCall, nChanges, nCalls>>

\* line 114: the stack is empty, the generator is exhausted
WalkReturn ==
  /\ walk.active /\ ~walk.done
  /\ walk.stack = << >>
  /\ walk' = [walk EXCEPT !.done = TRUE]
  /\ UNCHANGED <<arg, val, included, remote, files, results, cfiles, cresults, multi,
                 run, dataset_tag, ret, ev, log, last, prevAtCall, nChanges, nCalls>>

NextWalk ==
  \/ CallWalkPdfs
  \/ WalkSkipSeen
  \/ WalkList
  \/ WalkReturn

SpecWalk == InitWalk /\ [][NextWalk]_vars

\* the caller keeps asking the generator for its next entry
SpecWalkLive == SpecWalk /\ WF_vars(NextWalk)

\* ------------------------------------------------------------------- C30
RECURSIVE ReachableFrom(_)
\* the directories the listings lead to from the directories ds
ReachableFrom(ds) ==
  LET more == ds \cup UNION {arg.tree.links[d] : d \in ds} IN
  IF more = ds THEN ds ELSE ReachableFrom(more)

\* the directories under the start path, the start path among them
UnderStart == ReachableFrom({DirOf(strip_slashes(arg.start_path))})

\* the PDF entries of the documents under the start path
PdfsUnderStart ==
  {e \in UNION {Range(FilesOf(arg.tree, d)) : d \in UnderStart} :
     \/ e.content_type \in {<<"Application/", "PDF">>, <<"application/", "pdf">>}
     \/ Last(e.path) \in {".pdf", ".PDF"}}

\* no path is listed twice
ListedOnce ==
  walk.active =>
    \A j, k \in 1..Len(walk.listed) : walk.listed[j] = walk.listed[k] => j = k

\* what is yielded is an entry of a document, never of a directory
NoDirectoryYielded ==
  walk.active =>
    \A j \in 1..Len(walk.yielded) :
      /\ ~walk.yielded[j].is_dir
      /\ \A d \in Dirs : walk.yielded[j].path # DirPath(d)

\* when the walk is over every directory under the start path has been
\* listed and every PDF entry under it has been yielded, with its path, etag,
\* size and last-modified value
AllPdfsYielded ==
  (walk.active /\ walk.done) =>
    /\ {DirOf(p) : p \in Range(walk.listed)} = UnderStart
    /\ \A e \in PdfsUnderStart :
         \E j \in 1..Len(walk.yielded) :
           /\ walk.yielded[j].path = e.path
           /\ walk.yielded[j].etag = e.etag
           /\ walk.yielded[j].size = e.size
           /\ walk.yielded[j].last_modified = e.last_modified

\* a listing does not push the path of the directory it lists
SelfNotDescended ==
  (walk.active /\ walk'.active /\ Len(walk'.listed) = Len(walk.listed) + 1) =>
    \A j \in Len(walk.stack)..Len(walk'.stack) :
      strip_slashes(walk'.stack[j]) # strip_slashes(Last(walk.stack))

WalkOver == walk.active /\ walk.done

\* C30: walk_pdfs terminates on every finite remote tree, also when a listing
\* refers back to a directory already visited: each directory path is listed
\* at most once, the entry of the listed directory itself is not descended
\* into, every non-directory entry under the start path with a PDF content type
\* or a path ending in .pdf (any letter case) is yielded with its path, etag,
\* size and last-modified value, and no directory entry is yielded.
C30_WalkTerminates ==
  /\ [](ListedOnce /\ NoDirectoryYielded /\ AllPdfsYielded)
  /\ [][SelfNotDescended]_vars
  /\ <>WalkOver

\* a walk is over in which a listing referred back to a listed directory, a
\* directory named its own entry, and a PDF was yielded from below the start
C30_Witness ==
  /\ WalkOver
  /\ Len(walk.listed) = MaxDirs
  /\ \E d \in Dirs : d \in arg.tree.links[d]
  /\ \E d \in Dirs \ {DirOf(walk.listed[1])} :
       DirOf(walk.listed[1]) \in arg.tree.links[d]
  /\ \E j \in 1..Len(walk.yielded) :
       /\ Last(walk.yielded[j].path) = ".PDF"
       /\ Len(walk.yielded[j].path) > 2

====
